---------------------------- MODULE Spec2Model ----------------------------
(***************************************************************************)
(* Model of the adaptive extraction pipeline of the universal website      *)
(* scraper: ScraperEngine (backend/scraper/engine.py), the URL utilities   *)
(* (backend/scraper/utils.py), SectionParser (section_parser.py, the last  *)
(* definition of the class in the file is the one Python binds) and the    *)
(* browser session of DynamicScraper (dynamic_scraper.py).                 *)
(*                                                                         *)
(* Strings are sequences of one-character strings.  One action is the code *)
(* that runs between two awaits; the global deadline of asyncio.wait_for   *)
(* can fire at every await.                                                *)
(*                                                                         *)
(* Spec is a run of ScraperEngine.scrape(), SpecParse a call of            *)
(* parse_sections() on a stand-alone SectionParser, SpecInteract the       *)
(* scroll probe and the pagination of DynamicScraper step by step, next to *)
(* an InteractionHandler (backend/scraper/interactions.py), SpecClean a    *)
(* call of clean_url(), SpecPhase perform_interactions() selector by       *)
(* selector, SpecHandler an InteractionHandler and the caller of its       *)
(* getters, SpecTwo the pagination of two requests on one event loop,      *)
(* SpecBudget perform_interactions() on a page that offers more than every *)
(* budget, SpecLive a run of scrape() in which every await ends.           *)
(***************************************************************************)
EXTENDS Integers, Sequences, FiniteSets, TLC

VARIABLES
    url_in,          \* the url argument of ScraperEngine(url, use_js, max_depth)
    use_js,          \* self.use_js: "True", "False" or "None"
    url,             \* self.url
    meta,            \* self.result["meta"], a set of <<key, value>> pairs
    sections,        \* self.result["sections"]
    interactions,    \* self.result["interactions"]
    errors,          \* self.result["errors"]
    pc,              \* the await the scrape() task is suspended at
    rstep,           \* index in RenderSteps of the await fetch() is suspended at
    acquired,        \* browser resources held by the DynamicScraper (non-None fields)
    html,            \* DynamicScraper.html (<<>> stands for None and for "")
    clicks,          \* perform_interactions: the local list clicks
    scrolls,         \* perform_interactions: the local scrolls
    visited_pages,   \* DynamicScraper.visited_pages
    cstep,           \* index in CloseOrder of the release close() is suspended at
    expired,         \* the global deadline has fired and cancelled the task
    outcome,         \* "running" until scrape() returns, then "returned"
    hist,            \* history of the run, read only by the properties
    soup,            \* SectionParser.soup: the document given to SectionParser(html, base_url)
    parsed,          \* what parse_sections() returned
    max_depth,       \* the max_depth argument of ScraperEngine(url, use_js, max_depth)
    hop,             \* _handle_pagination: iterations of the outer loop completed
    cand,            \* _handle_pagination: index of the selector the inner loop is at
    ilog,            \* history of the interaction phase, read only by the properties
    handler,         \* InteractionHandler.interactions
    ledger,          \* InteractionHandler.errors, the error entries they refer
                     \* to, and what the caller of the handler holds
    sched            \* two tasks on one event loop: the fields of the task
                     \* that is suspended, the list objects of both tasks

vars == <<url_in, use_js, url, meta, sections, interactions, errors, pc, rstep,
          acquired, html, clicks, scrolls, visited_pages, cstep, expired,
          outcome, hist, soup, parsed, max_depth, hop, cand, ilog, handler,
          ledger, sched>>

\* the variables of a stand-alone SectionParser
parserVars == <<soup, parsed>>

\* the variables of the interaction phase run step by step, and of a
\* stand-alone InteractionHandler
probeVars == <<max_depth, hop, cand, ilog, handler, ledger, sched>>

-----------------------------------------------------------------------------
(* Bounds of the model *)

\* at most this many clicks succeed during one interaction phase
MaxClicks == 1
\* a document given to a stand-alone SectionParser has at most this many elements
MaxElems == 2
\* number of pages, other than the origin, a pagination hop can land on
MaxPageId == 1
\* page heights the scroll probe can measure are 1..MaxHeight
MaxHeight == 2
\* a selector of a click heuristic matches at most this many elements
MaxMatches == 4
\* the part of an input of clean_url that follows its scheme has at most this
\* many characters
MaxUrlLen == 3
\* a stand-alone InteractionHandler records at most this many errors
MaxErrors == 2

-----------------------------------------------------------------------------
(* Configuration: backend/config.py *)

JS_FALLBACK_MIN_TEXT == 400
MAX_DEPTH == 3
SCROLL_ATTEMPTS == 3
MAX_RAW_HTML_LENGTH == 10000
MAX_LINK_TEXT_LENGTH == 200
MAX_ALT_TEXT_LENGTH == 200
ALLOWED_SCHEMES == {<<"h","t","t","p">>, <<"h","t","t","p","s">>}

-----------------------------------------------------------------------------
(* Python string primitives *)

Rep(c, n) == [i \in 1..n |-> c]

IsSpace(c) == c = " "

startswith(s, p) == Len(s) >= Len(p) /\ SubSeq(s, 1, Len(p)) = p

\* s[:n]
Take(s, n) == SubSeq(s, 1, IF n < Len(s) THEN n ELSE Len(s))

\* s[n:]  (n counts the characters dropped)
Drop(s, n) == SubSeq(s, n + 1, Len(s))

\* str.strip(): leading and trailing whitespace removed
strip(s) ==
    LET n == Len(s)
    IN  IF \A i \in 1..n : IsSpace(s[i]) THEN <<>>
        ELSE SubSeq(s,
                    CHOOSE i \in 1..n :
                        ~IsSpace(s[i]) /\ \A j \in 1..(i - 1) : IsSpace(s[j]),
                    CHOOSE i \in 1..n :
                        ~IsSpace(s[i]) /\ \A j \in (i + 1)..n : IsSpace(s[j]))

\* str.rstrip("/")
rstrip_slash(s) ==
    LET n == Len(s)
    IN  IF \A i \in 1..n : s[i] = "/" THEN <<>>
        ELSE SubSeq(s, 1, CHOOSE i \in 1..n :
                              s[i] # "/" /\ \A j \in (i + 1)..n : s[j] = "/")

\* str.find(c): the 1-based index of the first c, 0 when there is none
find(s, c) ==
    IF \A i \in 1..Len(s) : s[i] # c THEN 0
    ELSE CHOOSE i \in 1..Len(s) : s[i] = c /\ \A j \in 1..(i - 1) : s[j] # c

HTTP == <<"h","t","t","p",":","/","/">>
HTTPS == <<"h","t","t","p","s",":","/","/">>

-----------------------------------------------------------------------------
(* backend/scraper/utils.py *)

\* re.sub(r"\s+", " ", text).strip()
sanitize_text(text) ==
    LET t == strip(text)
        keep(i) == ~IsSpace(t[i]) \/ ~IsSpace(t[i - 1])
        idx == SelectSeq([i \in 1..Len(t) |-> i], keep)
    IN  [k \in 1..Len(idx) |-> t[idx[k]]]

\* mutant of clean_url: the input is not trimmed
clean_url_untrimmed(u) ==
    IF u = <<>> THEN u
    ELSE LET t == IF startswith(u, HTTP) \/ startswith(u, HTTPS)
                  THEN u ELSE HTTPS \o u
         IN  rstrip_slash(t)

clean_url(u) ==
    IF u = <<>> THEN u
    ELSE LET s == strip(u)
             t == IF startswith(s, HTTP) \/ startswith(s, HTTPS)
                  THEN s ELSE HTTPS \o s
         IN  rstrip_slash(t)

Letters ==
    {"a", "b", "c", "d", "e", "f", "g", "h", "i", "j", "k", "l", "m", "n", "o",
     "p", "q", "r", "s", "t", "u", "v", "w", "x", "y", "z"}
SchemeChars == Letters \cup {"+", "-", "."}

\* urllib.parse.urlsplit(u), scheme and netloc only.  The alphabet of the model
\* has lower-case letters only and no brackets, so no case folding and no
\* ValueError occur.

\* whether s, whose first ":" is at index i (0 for none), starts with a scheme
HasScheme(s, i) ==
    /\ i > 1
    /\ s[1] \in Letters
    /\ \A k \in 1..(i - 1) : s[k] \in SchemeChars

\* the netloc of rest, the URL after its scheme: after is rest[2:], stop the
\* index of the first "/" of after (0 for none)
Netloc(rest, after, stop) ==
    IF startswith(rest, <<"/", "/">>)
    THEN (IF stop = 0 THEN after ELSE SubSeq(after, 1, stop - 1))
    ELSE <<>>

UrlParts(s, i) ==
    [scheme |-> IF HasScheme(s, i) THEN SubSeq(s, 1, i - 1) ELSE <<>>,
     netloc |-> IF HasScheme(s, i)
                THEN Netloc(Drop(s, i), Drop(s, i + 2), find(Drop(s, i + 2), "/"))
                ELSE Netloc(s, Drop(s, 2), find(Drop(s, 2), "/"))]

urlparse(u) == UrlParts(strip(u), find(strip(u), ":"))

is_valid_url(u) ==
    LET r == urlparse(u)
    IN  IF r.scheme = <<>> \/ r.netloc = <<>> THEN FALSE
        ELSE r.scheme \in ALLOWED_SCHEMES

\* urllib.parse.urljoin(base, u) for a base without path, query or fragment
\* (clean_url leaves none in the bases of the model) and a reference without
\* dot segments
\* b and r are the parts of base and of u, rest is u without its scheme
JoinParts(base, u, b, r, rest) ==
    IF base = <<>> THEN u
    ELSE IF u = <<>> THEN base
    ELSE IF r.scheme # <<>> /\ r.scheme # b.scheme THEN u
    ELSE IF startswith(rest, <<"/", "/">>) THEN b.scheme \o <<":">> \o rest
    ELSE IF rest = <<>> \/ rest[1] \in {"#", "?"} THEN base \o rest
    ELSE IF rest[1] = "/" THEN b.scheme \o <<":", "/", "/">> \o b.netloc \o rest
    ELSE b.scheme \o <<":", "/", "/">> \o b.netloc \o <<"/">> \o rest

SchemeLength(r) == IF r.scheme # <<>> THEN Len(r.scheme) + 1 ELSE 0

urljoin(base, u) ==
    JoinParts(base, u, urlparse(base), urlparse(u),
              Drop(u, SchemeLength(urlparse(u))))

make_absolute_url(u, base_url) ==
    IF u = <<>> THEN u
    ELSE IF startswith(u, <<"/", "/">>) THEN <<"h","t","t","p","s",":">> \o u
    ELSE IF startswith(u, HTTP) \/ startswith(u, HTTPS) THEN u
    ELSE urljoin(base_url, u)

\* mutant of truncate_text: a text of exactly max_length is cut as well
truncate_text_early(text, max_length) ==
    IF text = <<>> \/ Len(text) < max_length
    THEN [text |-> text, truncated |-> FALSE]
    ELSE [text |-> Take(text, max_length) \o <<".", ".", ".">>, truncated |-> TRUE]

\* the pair (text, truncated) truncate_text returns
truncate_text(text, max_length) ==
    IF text = <<>> \/ Len(text) <= max_length
    THEN [text |-> text, truncated |-> FALSE]
    ELSE [text |-> Take(text, max_length) \o <<".", ".", ".">>, truncated |-> TRUE]


-----------------------------------------------------------------------------
(* HTML documents.  A document is the sequence of its elements in document *)
(* order; <<>> is the empty string.  An element carries its tag, its text, *)
(* the texts of the headings inside it, its aria-label, the number of its  *)
(* direct div children, the <a> elements inside it that have an href       *)
(* attribute, the <img> elements inside it that have a src attribute, and  *)
(* its serialisation str(el).                                              *)

TagName ==
    [main |-> <<"m","a","i","n">>, section |-> <<"s","e","c","t","i","o","n">>,
     article |-> <<"a","r","t","i","c","l","e">>, nav |-> <<"n","a","v">>,
     aside |-> <<"a","s","i","d","e">>, footer |-> <<"f","o","o","t","e","r">>,
     header |-> <<"h","e","a","d","e","r">>, div |-> <<"d","i","v">>,
     p |-> <<"p">>, title |-> <<"t","i","t","l","e">>, body |-> <<"b","o","d","y">>]

\* str() of an element of the given tag around the given inner HTML
OuterHtml(tag, inner) ==
    <<"<">> \o TagName[tag] \o <<">">> \o inner \o <<"<", "/">> \o TagName[tag] \o <<">">>

\* an element whose content is its text: no link, no image
Element(tag, text, headings, aria, ndiv) ==
    [tag |-> tag, text |-> text, headings |-> headings, aria |-> aria, ndiv |-> ndiv,
     links |-> <<>>, images |-> <<>>, html |-> OuterHtml(tag, text)]

SemanticTags == <<"main", "section", "article", "nav", "aside", "footer", "header">>

UpperName ==
    [main |-> <<"M","A","I","N">>, section |-> <<"S","E","C","T","I","O","N">>,
     article |-> <<"A","R","T","I","C","L","E">>, nav |-> <<"N","A","V">>,
     aside |-> <<"A","S","I","D","E">>, footer |-> <<"F","O","O","T","E","R">>,
     header |-> <<"H","E","A","D","E","R">>, div |-> <<"D","I","V">>]

\* soup.find_all(tag)
find_all(doc, tag) == SelectSeq(doc, LAMBDA e : e.tag = tag)

\* the elements of <body>: everything but the <title> of <head>
body_of(doc) == SelectSeq(doc, LAMBDA e : e.tag # "title")

\* the serialisations of a sequence of elements, one after the other
RECURSIVE InnerHtml(_)
InnerHtml(els) ==
    IF els = <<>> THEN <<>> ELSE els[1].html \o InnerHtml(Tail(els))

\* get_text(" ", strip=True) of a sequence of elements
RECURSIVE get_text(_)
get_text(els) ==
    IF els = <<>> THEN <<>>
    ELSE LET h == strip(els[1].text)
             t == get_text(Tail(els))
         IN  IF h = <<>> THEN t
             ELSE IF t = <<>> THEN h
             ELSE h \o <<" ">> \o t

-----------------------------------------------------------------------------
(* backend/scraper/section_parser.py, class SectionParser (second, binding   *)
(* definition)                                                               *)

RECURSIVE FindByTags(_, _)
FindByTags(doc, tags) ==
    IF tags = <<>> THEN <<>>
    ELSE find_all(doc, Head(tags)) \o FindByTags(doc, Tail(tags))

_find_semantic_sections(doc) == FindByTags(doc, SemanticTags)

\* mutant of _find_content_divs: one direct div child is enough
_find_content_divs_loose(doc) ==
    SelectSeq(find_all(doc, "div"),
              LAMBDA d : Len(sanitize_text(strip(d.text))) >= 300 /\ d.ndiv >= 1)

_find_content_divs(doc) ==
    SelectSeq(find_all(doc, "div"),
              LAMBDA d : Len(sanitize_text(strip(d.text))) >= 300 /\ d.ndiv >= 2)

JAVASCRIPT == <<"j","a","v","a","s","c","r","i","p","t",":">>
MAILTO == <<"m","a","i","l","t","o",":">>

_extract_content(el, base_url) ==
    LET followed == SelectSeq(el.links,
                       LAMBDA a : ~(\/ startswith(a.href, <<"#">>)
                                    \/ startswith(a.href, JAVASCRIPT)
                                    \/ startswith(a.href, MAILTO)))
    IN  [headings |-> SelectSeq([i \in 1..Len(el.headings) |-> strip(el.headings[i])],
                                LAMBDA h : h # <<>>),
         text |-> sanitize_text(strip(el.text)),
         links |-> [i \in 1..Len(followed) |->
                      [text |-> truncate_text(strip(followed[i].text),
                                              MAX_LINK_TEXT_LENGTH).text,
                       href |-> make_absolute_url(followed[i].href, base_url)]],
         images |-> [i \in 1..Len(el.images) |->
                       [src |-> make_absolute_url(el.images[i].src, base_url),
                        alt |-> truncate_text(el.images[i].alt,
                                              MAX_ALT_TEXT_LENGTH).text]]]

_generate_label(el, content) ==
    IF content.headings # <<>> THEN Take(content.headings[1], 100)
    ELSE IF el.aria # <<>> THEN Take(el.aria, 100)
    ELSE UpperName[el.tag]

\* mutant of _process_section: the id is the tag name with index 0
_process_section_unindexed(el, index, base_url) ==
    LET content == _extract_content(el, base_url)
        raw == truncate_text(el.html, MAX_RAW_HTML_LENGTH)
    IN  IF content.text = <<>> THEN <<>>
        ELSE << [id |-> <<el.tag, 0>>,
                 type |-> el.tag,
                 label |-> _generate_label(el, content),
                 sourceUrl |-> base_url,
                 content |-> content,
                 rawHtml |-> raw.text,
                 truncated |-> raw.truncated] >>

\* None is modelled by the empty sequence of sections, a section by a
\* one-element sequence
_process_section(el, index, base_url) ==
    LET content == _extract_content(el, base_url)
        raw == truncate_text(el.html, MAX_RAW_HTML_LENGTH)
    IN  IF content.text = <<>> THEN <<>>
        ELSE << [id |-> <<el.tag, index>>,
                 type |-> el.tag,
                 label |-> _generate_label(el, content),
                 sourceUrl |-> base_url,
                 content |-> content,
                 rawHtml |-> raw.text,
                 truncated |-> raw.truncated] >>

\* str(body); the document has a <body> when it has content outside <head>
body_html(doc) ==
    IF body_of(doc) = <<>> THEN <<>> ELSE OuterHtml("body", InnerHtml(body_of(doc)))

_create_fallback_section(doc, base_url) ==
    LET raw == truncate_text(body_html(doc), MAX_RAW_HTML_LENGTH)
    IN  [id |-> <<"main", 0>>,
         type |-> "section",
         label |-> <<"M","a","i","n"," ","C","o","n","t","e","n","t">>,
         sourceUrl |-> base_url,
         content |-> [headings |-> <<>>,
                      text |-> sanitize_text(get_text(body_of(doc))),
                      links |-> <<>>, images |-> <<>>],
         rawHtml |-> raw.text,
         truncated |-> raw.truncated]

\* mutant of tiny_nav: no nav section is skipped
tiny_nav_kept(section) == FALSE

\* the test of the loop of parse_sections that skips a tiny nav section
tiny_nav(section) == section.type = "nav" /\ Len(section.content.text) < 50

\* mutant of signature: the whole text is the key
signature_of_whole(text) == text

\* what parse_sections hashes to recognise a repeated section
signature(text) == Take(text, 300)

\* the loop of parse_sections over the candidates cands[idx + 1 ..]
RECURSIVE ParseLoop(_, _, _, _, _)

\* the body of the loop for the candidate at idx, section being what
\* _process_section made of it
ParseStep(cands, idx, base_url, acc, seen_hashes, section) ==
    IF section = <<>>
       THEN ParseLoop(cands, idx + 1, base_url, acc, seen_hashes)
    ELSE IF tiny_nav(section[1])
       THEN ParseLoop(cands, idx + 1, base_url, acc, seen_hashes)
    ELSE IF section[1].content.text = <<>>
       THEN ParseLoop(cands, idx + 1, base_url, acc, seen_hashes)
    ELSE IF signature(section[1].content.text) \in seen_hashes
       THEN ParseLoop(cands, idx + 1, base_url, acc, seen_hashes)
    ELSE ParseLoop(cands, idx + 1, base_url, acc \o section,
                   seen_hashes \cup {signature(section[1].content.text)})

ParseLoop(cands, idx, base_url, acc, seen_hashes) ==
    IF idx >= Len(cands) THEN acc
    ELSE ParseStep(cands, idx, base_url, acc, seen_hashes,
                   _process_section(cands[idx + 1], idx, base_url))

\* mutant of parse_sections: no fallback section is synthesized
parse_sections_bare(doc, base_url) ==
    LET semantic == _find_semantic_sections(doc)
        cands == IF Len(semantic) < 2
                 THEN semantic \o _find_content_divs(doc) ELSE semantic
    IN  ParseLoop(cands, 0, base_url, <<>>, {})

parse_sections(doc, base_url) ==
    LET semantic == _find_semantic_sections(doc)
        cands == IF Len(semantic) < 2
                 THEN semantic \o _find_content_divs(doc) ELSE semantic
        found == ParseLoop(cands, 0, base_url, <<>>, {})
    IN  IF found = <<>> THEN << _create_fallback_section(doc, base_url) >>
        ELSE found

-----------------------------------------------------------------------------
(* backend/scraper/static_scraper.py *)

\* extract_metadata(): the title is the text of the first <title> element
extract_metadata(doc) ==
    LET titles == find_all(doc, "title")
    IN  {<<"title", IF titles = <<>> THEN <<>> ELSE strip(titles[1].text)>>,
         <<"description", <<>> >>,
         <<"language", <<"e", "n">> >>,
         <<"canonical", <<>> >>}


-----------------------------------------------------------------------------
(* backend/scraper/dynamic_scraper.py: the interaction heuristics, each as *)
(* a function of what the page answers during its run                      *)

TabSelectors == <<"[role='tab']", ".tab", "[class*='tab']", "button[data-tab]">>

LoadSelectors ==
    <<"button:has-text(Load)", "button:has-text(More)", "button:has-text(Show)",
      "a:has-text(Load more)", "a:has-text(Show more)">>

RECURSIVE SumTo(_, _)
SumTo(f, n) == IF n = 0 THEN 0 ELSE f[n] + SumTo(f, n - 1)

\* the list clicked after the selectors k.. : selector i is appended succ[i]
\* times, once for each of its matches that was visible and took the click
RECURSIVE Clicked(_, _, _)
Clicked(selectors, succ, k) ==
    IF k > Len(selectors) THEN <<>>
    ELSE Rep(selectors[k], succ[k]) \o Clicked(selectors, succ, k + 1)

\* succ[i]: how many of elements[:3] of selector i were visible and clicked
_click_tabs(succ) == Clicked(TabSelectors, succ, 1)

\* succ[i]: how many of buttons[:2] of selector i were visible and clicked
_click_load_buttons(succ) == Clicked(LoadSelectors, succ, 1)

\* one iteration of the loop of _scroll_for_content, entered with the counter
\* at n (the counter is also the number of iterations run so far): step says
\* whether an evaluate raised, else the scrollHeight before and after the
\* scroll; again says whether the loop goes on
_scroll_for_content(n, step) ==
    IF step.raise THEN [scrolls |-> n, again |-> FALSE]
    ELSE [scrolls |-> n + 1,
          again |-> step.new # step.old /\ n + 1 < SCROLL_ATTEMPTS]

\* the page a hop lands on: 0 is the origin, k > 0 is page k of the listing
PageUrl(origin, k) == IF k = 0 THEN origin ELSE origin \o <<"/">> \o Rep("p", k)

\* hops[k]: -1 when no next-page candidate qualifies in hop k, else the id of
\* the page that self.page.url names after the click
RECURSIVE PaginationLoop(_, _, _, _)
PaginationLoop(origin, pages, hops, k) ==
    IF k > MAX_DEPTH - 1 THEN pages
    ELSE IF hops[k] = -1 THEN pages
    ELSE LET current == PageUrl(origin, hops[k])
         IN  PaginationLoop(origin,
                            IF \E i \in 1..Len(pages) : pages[i] = current
                            THEN pages ELSE Append(pages, current),
                            hops, k + 1)

_handle_pagination(origin, pages, hops) == PaginationLoop(origin, pages, hops, 1)

\* the selectors of _handle_pagination in the order the inner loop tries them
NextSelectors ==
    <<"a:has-text(Next)", ".next", "[rel='next']", "button:has-text(Next)",
      "a:has-text(>>)">>

\* mutant of visit: the landing page is appended even when already listed
visit_again(pages, current) == Append(pages, current)

\* _handle_pagination after a hop: self.page.url joins visited_pages when new
visit(pages, current) ==
    IF \E i \in 1..Len(pages) : pages[i] = current THEN pages
    ELSE Append(pages, current)

TabOutcomes(room) ==
    {f \in [1..Len(TabSelectors) -> 0..3] : SumTo(f, Len(TabSelectors)) <= room}
LoadOutcomes(room) ==
    {f \in [1..Len(LoadSelectors) -> 0..2] : SumTo(f, Len(LoadSelectors)) <= room}
Heights == 1..MaxHeight
ScrollSteps ==
    [raise : {FALSE}, old : Heights, new : Heights]
        \cup {[raise |-> TRUE, old |-> 1, new |-> 1]}
HopOutcomes == [1..(MAX_DEPTH - 1) -> -1..MaxPageId]

\* elements[:3] of _click_tabs, buttons[:2] of _click_load_buttons
TabQuota == 3
LoadQuota == 2

\* a match of a selector: is_visible() answers False ("hidden"), or True and
\* the click succeeds ("visible"), or True and the click raises ("stuck"), or
\* is_visible() raises ("detached")
MatchKinds == {"hidden", "visible", "stuck", "detached"}

\* mutant of caught_by: no clause catches an exception of is_visible
caught_by_click_only(call) ==
    IF call = "click" THEN "inner"
    ELSE IF call = "is_visible" THEN "none" ELSE "outer"

\* the except clause of a click loop that catches an exception of the call:
\* the inner one goes on with the next element, the outer one with the next
\* selector
caught_by(call) == IF call = "click" THEN "inner" ELSE "outer"

\* the loop over elements[:quota] from the element that raised in call, rest
\* being the outcome of the loop over the elements after it: clicks recorded,
\* whether a sub-step failed, whether an exception left the heuristic
Raised(call, rest) ==
    IF caught_by(call) = "inner" THEN [rest EXCEPT !.failed = TRUE]
    ELSE [n |-> 0, failed |-> TRUE, escaped |-> caught_by(call) = "none"]

\* the loop over the elements els: a hidden element is passed over, a click
\* that succeeds is recorded
RECURSIVE ClickLoop(_)
ClickLoop(els) ==
    IF els = <<>> THEN [n |-> 0, failed |-> FALSE, escaped |-> FALSE]
    ELSE IF Head(els) = "hidden" THEN ClickLoop(Tail(els))
    ELSE IF Head(els) = "visible" THEN [ClickLoop(Tail(els)) EXCEPT !.n = @ + 1]
    ELSE Raised(IF Head(els) = "stuck" THEN "click" ELSE "is_visible",
                ClickLoop(Tail(els)))

\* what query_selector_all can do for a selector of a heuristic with the
\* given quota while room clicks can still succeed: up to quota + 1 matches
QueryAnswers(quota, room) ==
    {[raise |-> TRUE, elements |-> <<>>]}
      \cup {[raise |-> FALSE, elements |-> m] :
               m \in {e \in UNION {[1..n -> MatchKinds] : n \in 0..(quota + 1)} :
                         Cardinality({i \in 1..Len(e) : e[i] = "visible"}) <= room}}

-----------------------------------------------------------------------------
(* backend/scraper/dynamic_scraper.py: the browser session *)

\* the awaits of DynamicScraper.fetch() in order; an exception at a fatal one
\* makes fetch() return False, the other ones swallow theirs
RenderSteps ==
    << [call |-> "start",             fatal |-> TRUE,  gets |-> "playwright"],
       [call |-> "launch",            fatal |-> TRUE,  gets |-> "browser"],
       [call |-> "new_context",       fatal |-> TRUE,  gets |-> "context"],
       [call |-> "new_page",          fatal |-> TRUE,  gets |-> "page"],
       [call |-> "goto",              fatal |-> TRUE,  gets |-> "none"],
       [call |-> "wait_for_timeout",  fatal |-> TRUE,  gets |-> "none"],
       [call |-> "wait_for_selector", fatal |-> FALSE, gets |-> "none"],
       [call |-> "evaluate",          fatal |-> FALSE, gets |-> "none"],
       [call |-> "content",           fatal |-> TRUE,  gets |-> "none"] >>

\* mutant of CloseOrder: the releases in the order of acquisition
CloseOrder_forward == <<"playwright", "browser", "context">>

\* the releases of DynamicScraper.close() in order
CloseOrder == <<"context", "browser", "playwright">>

\* the first release at or after position k that close() awaits: it skips the
\* fields that are None
NextClose(k, acq) ==
    LET todo == {j \in k..Len(CloseOrder) : CloseOrder[j] \in acq}
    IN  IF todo = {} THEN Len(CloseOrder) + 1
        ELSE CHOOSE j \in todo : \A i \in todo : j <= i

-----------------------------------------------------------------------------
(* backend/scraper/interactions.py *)

\* InteractionHandler.add_page(u) on the interactions record h
add_page(h, u) ==
    IF u # <<>> /\ ~(\E i \in 1..Len(h.pages) : h.pages[i] = u)
    THEN [h EXCEPT !.pages = Append(@, u)]
    ELSE h

\* The error entries are dicts, objects the lists refer to: heap holds them,
\* a list of entries is a sequence of positions in heap.  errors is
\* self.errors; held is the list a get_errors() call returned, view the dict a
\* get_interactions() call returned, has says which of the two the caller got
NoLedger == [errors |-> <<>>, heap |-> <<>>, held |-> <<>>,
             view |-> [clicks |-> <<>>, scrolls |-> 0, pages |-> <<>>],
             has |-> {}]

\* InteractionHandler.add_error(message, phase)
add_error(l, message, phase) ==
    IF message = "" \/ phase = "" THEN l
    ELSE [l EXCEPT !.heap = Append(@, [message |-> message, phase |-> phase]),
                   !.errors = Append(@, Len(l.heap) + 1)]

\* InteractionHandler.get_interactions(): a new dict with new lists; the
\* strings and the number in them cannot be changed
get_interactions(h) == [clicks |-> h.clicks, scrolls |-> h.scrolls, pages |-> h.pages]

\* InteractionHandler.get_errors(): list(self.errors), a new list of the same
\* entries
get_errors(l) == l.errors

\* the entries a list of entries shows
Entries(l, refs) == [i \in 1..Len(refs) |-> l.heap[refs[i]]]

-----------------------------------------------------------------------------
(* backend/scraper/engine.py *)

Truthy(v) == v = "True"

DefaultInteractions(u) == [clicks |-> <<>>, scrolls |-> 0, pages |-> <<u>>]

\* mutant of _error: the entry is built and not appended
_error_dropped(errs, msg, phase) == errs

_error(errs, msg, phase) == Append(errs, [message |-> msg, phase |-> phase])

RECURSIVE TotalText(_)
TotalText(secs) ==
    IF secs = <<>> THEN 0 ELSE Len(secs[1].content.text) + TotalText(Tail(secs))

\* mutant of _low_text: the threshold itself counts as low
_low_text_inclusive(secs) == TotalText(secs) <= JS_FALLBACK_MIN_TEXT

_low_text(secs) == TotalText(secs) < JS_FALLBACK_MIN_TEXT

\* _static(): result["sections"] after a fetch that answered with body doc
_static_sections(doc, base_url, cur) ==
    IF doc # <<>> THEN parse_sections(doc, base_url) ELSE cur

\* _scrape_internal(): whether _dynamic() is awaited
triggers_dynamic(js, static_ok, secs) ==
    Truthy(js) \/ (static_ok /\ _low_text(secs))

\* mutant of _dynamic_sections: a failed render clears the sections
_dynamic_sections_cleared(fetched, rendered, base_url, cur) ==
    IF fetched /\ rendered # <<>> THEN parse_sections(rendered, base_url) ELSE <<>>

\* mutant of _dynamic_sections: the rendered sections are added to the static ones
_dynamic_sections_merged(fetched, rendered, base_url, cur) ==
    IF fetched /\ rendered # <<>>
    THEN cur \o parse_sections(rendered, base_url) ELSE cur

\* _dynamic(): result["sections"] once scraper.fetch() has answered
_dynamic_sections(fetched, rendered, base_url, cur) ==
    IF fetched /\ rendered # <<>> THEN parse_sections(rendered, base_url) ELSE cur


-----------------------------------------------------------------------------
(* Inputs of the model *)

Urls ==
    { <<" ","x","/">>,
      <<"f","t","p",":","/","/","x">>,
      <<>>,
      <<"h","t","t","p","s",":","/","/">> }

UseJsValues == {"True", "False", "None"}

DocEmpty == <<>>

DocLow ==
    << Element("title", <<"t">>, <<>>, <<>>, 0),
       Element("main", Rep("a", JS_FALLBACK_MIN_TEXT - 1), <<>>, <<>>, 0) >>

DocExact ==
    << Element("section", Rep("a", 200), <<>>, <<"l">>, 0),
       Element("article", Rep("b", JS_FALLBACK_MIN_TEXT - 200), <<>>, <<>>, 0) >>

DocPlain == << Element("p", <<"a", " ", " ", "b">>, <<>>, <<>>, 0) >>

DocRendered ==
    << Element("nav", <<"a">>, <<>>, <<>>, 0),
       Element("main", Rep("c", JS_FALLBACK_MIN_TEXT + 1), <<<<"T">>>>, <<>>, 0) >>

\* bodies the static fetch can answer with
StaticDocs == {DocEmpty, DocLow, DocExact, DocPlain}

\* what page.content() can answer with
RenderedDocs == {DocEmpty, DocRendered}

\* the inputs that pass validation
ValidUrls == {u \in Urls : is_valid_url(clean_url(u))}

DATA == <<"d","a","t","a",":">>

\* elements a document given to a stand-alone SectionParser is made of: two
\* texts that agree on their first 300 characters and differ after them,
SectionX == Element("section", Rep("a", 300) \o <<"x">>, <<>>, <<>>, 0)
ArticleY == Element("article", Rep("a", 300) \o <<"y">>, <<>>, <<>>, 0)
\* a nav below and a nav at the 50 characters, an aside with the text of the
\* short nav, an element with no text,
NavShort == Element("nav", <<"a", "b">>, <<>>, <<>>, 0)
NavLong == Element("nav", Rep("n", 50), <<>>, <<>>, 0)
AsideShort == Element("aside", <<"a", "b">>, <<>>, <<>>, 0)
Blank == Element("section", <<" ">>, <<>>, <<>>, 0)
\* an element with links and images of every kind of reference,
Linked ==
    [Element("main", <<"m">>, <<<<"T">>>>, <<>>, 0) EXCEPT
        !.links = << [href |-> <<"#", "a">>, text |-> <<"f">>],
                     [href |-> JAVASCRIPT \o <<"x">>, text |-> <<"j">>],
                     [href |-> MAILTO \o <<"x">>, text |-> <<"m">>],
                     [href |-> <<"/", "p">>, text |-> <<" ", "r">>],
                     [href |-> <<"p">>, text |-> <<>>],
                     [href |-> <<"/", "/", "x", "/", "p">>, text |-> <<"s">>],
                     [href |-> HTTP \o <<"x", "/", "p">>, text |-> <<"h">>],
                     [href |-> <<>>, text |-> <<"e">>] >>,
        !.images = << [src |-> DATA \o <<"x">>, alt |-> <<"d">>],
                      [src |-> <<"/", "i">>, alt |-> <<>>] >>]
\* an element whose serialisation, a short text and a comment, has
\* MAX_RAW_HTML_LENGTH characters, one with one character more, and a div that
\* qualifies as a content container
Padded(text, n) ==
    LET empty == OuterHtml("section", text \o <<"<", "!", "-", "-", "-", "-", ">">>)
    IN  [Element("section", text, <<>>, <<>>, 0) EXCEPT
            !.html = OuterHtml("section",
                               text \o <<"<", "!", "-", "-">>
                                    \o Rep("c", n - Len(empty))
                                    \o <<"-", "-", ">">>)]
RawAtLimit == Padded(<<"h">>, MAX_RAW_HTML_LENGTH)
RawOverLimit == Padded(<<"o">>, MAX_RAW_HTML_LENGTH + 1)
ContentDiv == Element("div", Rep("d", 300), <<>>, <<>>, 2)

LandmarkKinds ==
    {SectionX, ArticleY, NavShort, NavLong, AsideShort, Blank, Linked,
     RawAtLimit, RawOverLimit}

\* the content container, a div one character short of one, and a div with
\* one direct div child
ContainerKinds ==
    {ContentDiv,
     Element("div", Rep("e", 299), <<>>, <<>>, 2),
     Element("div", Rep("f", 300), <<>>, <<>>, 1)}

\* a paragraph, no candidate, with a heading, a link and an image
Paragraph ==
    [Element("p", <<"p">>, <<<<"H">>>>, <<>>, 0) EXCEPT
        !.links = << [href |-> <<"/", "q">>, text |-> <<"q">>] >>,
        !.images = << [src |-> <<"/", "j">>, alt |-> <<"j">>] >>]

ElementKinds == LandmarkKinds \cup ContainerKinds \cup {Paragraph}

\* the documents given to a stand-alone SectionParser: up to MaxElems elements
\* of any kind, and MaxElems landmark elements with a div before or after them
ParseDocs ==
    UNION {[1..n -> ElementKinds] : n \in 0..MaxElems}
      \cup {<<c>> \o d : c \in ContainerKinds, d \in [1..MaxElems -> LandmarkKinds]}
      \cup {d \o <<c>> : c \in ContainerKinds, d \in [1..MaxElems -> LandmarkKinds]}

-----------------------------------------------------------------------------
(* The state machine *)

NoSnap == [taken |-> FALSE, meta |-> {}, sections |-> <<>>,
           interactions |-> DefaultInteractions(<<>>), errors |-> <<>>,
           started |-> <<>>, clicked |-> FALSE, scrolled |-> FALSE]

\* no SectionParser of its own
ParserIdle ==
    /\ soup = <<>>
    /\ parsed = <<>>

NoStep == [raise |-> TRUE, old |-> 0, new |-> 0]

\* one task alone
NoSched == [turn |-> 0, mine |-> 0, lists |-> <<>>, other |-> [pc |-> "none"]]

\* the history of an interaction phase that has not started: the iteration
\* the scroll loop ran last, while it goes on, and the number of iterations,
\* whether a next-page link was
\* clicked and how many hops landed on a listed page, the heuristics entered
\* and the first one a sub-step failed in, whether a click loop holds the
\* elements of a selector and which, how many clicks it recorded for the
\* selector before, the number of links clicked in the hop under way, the
\* pages the hops landed on, and whether the task was suspended inside the
\* pagination loop and resumed after steps of another task
NoLog == [last |-> NoStep, iters |-> 0, navClicked |-> FALSE, revisits |-> 0,
          attempted |-> <<>>, firstFailure |-> "none",
          queried |-> FALSE, matches |-> <<>>, got |-> 0, hopClicks |-> 0,
          landed |-> <<>>, resumed |-> FALSE]

\* a sub-step of heuristic h failed
Failed(log, h) == [log EXCEPT !.firstFailure = IF @ = "none" THEN h ELSE @]

\* the engine drops its max_depth argument (the request default is 3), the
\* pagination loop is not entered yet, no InteractionHandler exists
ProbeIdle ==
    /\ max_depth = 3
    /\ hop = 0
    /\ cand = 0
    /\ ilog = NoLog
    /\ handler = DefaultInteractions(<<>>)
    /\ ledger = NoLedger
    /\ sched = NoSched

\* the fields of a ScraperEngine, but its url, after __init__
Fresh ==
    /\ meta = {}
    /\ sections = <<>>
    /\ interactions = DefaultInteractions(url)
    /\ errors = <<>>
    /\ rstep = 0
    /\ acquired = {}
    /\ html = <<>>
    /\ clicks = <<>>
    /\ scrolls = 0
    /\ visited_pages = <<>>
    /\ cstep = 0
    /\ expired = FALSE
    /\ outcome = "running"
    /\ hist = [static |-> "none", staticSections |-> <<>>, dynInvoked |-> FALSE,
               render |-> "none", rendered |-> <<>>, inter |-> "none",
               record |-> DefaultInteractions(url), started |-> <<>>,
               got |-> {}, closeCalled |-> <<>>, snap |-> NoSnap]

\* ScraperEngine(url_in, use_js): the fields of the engine but the position of
\* its task
Constructed ==
    /\ url = clean_url(url_in)
    /\ Fresh

Init ==
    /\ url_in \in Urls
    /\ use_js \in UseJsValues
    /\ Constructed
    /\ pc = "start"
    /\ ParserIdle
    /\ ProbeIdle

\* mutant of Return: scrape() has no handler for the TimeoutError of wait_for
Return_unhandled(errs, cancelled) ==
    /\ pc' = "done"
    /\ cstep' = 0
    /\ outcome' = IF cancelled THEN "raised" ELSE "returned"
    /\ errors' = errs

\* scrape() returns self.result; after a cancellation wait_for raises
\* TimeoutError and the handler appends the timeout entry first
Return(errs, cancelled) ==
    /\ pc' = "done"
    /\ cstep' = 0
    /\ outcome' = "returned"
    /\ errors' = IF cancelled
                 THEN _error(errs, "Scraping exceeded global timeout", "timeout")
                 ELSE errs

\* close() from release k on: suspend at the next release to await, or, with
\* nothing left to release, leave _dynamic()
CloseFrom(k, acq, cancelled) ==
    LET j == NextClose(k, acq)
    IN  IF j <= Len(CloseOrder)
        THEN /\ pc' = "close"
             /\ cstep' = j
             /\ outcome' = outcome
             /\ errors' = errors
        ELSE Return(errors, cancelled)

\* DynamicScraper(self.url) and the first await of fetch()
StartDynamic ==
    /\ pc' = "render"
    /\ rstep' = 1
    /\ visited_pages' = <<url>>
    /\ UNCHANGED <<errors, outcome, cstep>>

\* scrape() up to the first await: validation
Scrape ==
    /\ pc = "start"
    /\ IF ~is_valid_url(url)
       THEN /\ Return(_error(errors, "Invalid URL", "validation"), FALSE)
            /\ hist' = hist
       ELSE /\ pc' = "static_fetch"
            /\ hist' = [hist EXCEPT !.started = Append(@, "static")]
            /\ UNCHANGED <<errors, outcome, cstep>>
    /\ UNCHANGED <<url_in, use_js, url, meta, sections, interactions, rstep,
                   acquired, html, clicks, scrolls, visited_pages, expired>>
    /\ UNCHANGED <<parserVars, probeVars>>

\* StaticScraper.fetch() returns False (network failure, non-2xx status)
StaticFetchFails ==
    /\ pc = "static_fetch"
    /\ IF triggers_dynamic(use_js, FALSE, sections)
       THEN /\ StartDynamic
            /\ hist' = [hist EXCEPT !.static = "failed", !.dynInvoked = TRUE,
                                    !.render = "running",
                                    !.started = Append(@, "render")]
       ELSE /\ Return(errors, FALSE)
            /\ hist' = [hist EXCEPT !.static = "failed"]
            /\ UNCHANGED <<rstep, visited_pages>>
    /\ UNCHANGED <<url_in, use_js, url, meta, sections, interactions, acquired,
                   html, clicks, scrolls, expired>>
    /\ UNCHANGED <<parserVars, probeVars>>

\* StaticScraper.fetch() returns True with body doc; _static() fills meta and
\* sections, _scrape_internal() decides on the dynamic path
StaticFetchSucceeds ==
    /\ pc = "static_fetch"
    /\ \E doc \in StaticDocs :
        LET secs == _static_sections(doc, url, sections)
        IN  /\ meta' = extract_metadata(doc)
            /\ sections' = secs
            /\ IF triggers_dynamic(use_js, TRUE, secs)
               THEN /\ StartDynamic
                    /\ hist' = [hist EXCEPT !.static = "ok",
                                            !.staticSections = secs,
                                            !.dynInvoked = TRUE,
                                            !.render = "running",
                                            !.started = Append(@, "render")]
               ELSE /\ Return(errors, FALSE)
                    /\ hist' = [hist EXCEPT !.static = "ok",
                                            !.staticSections = secs]
                    /\ UNCHANGED <<rstep, visited_pages>>
    /\ UNCHANGED <<url_in, use_js, url, interactions, acquired, html, clicks,
                   scrolls, expired>>
    /\ UNCHANGED <<parserVars, probeVars>>

\* an await of fetch() before page.content() completes (or, at a step that
\* swallows its exceptions, fails)
RenderStepDone ==
    /\ pc = "render"
    /\ rstep < Len(RenderSteps)
    /\ rstep' = rstep + 1
    /\ acquired' = IF RenderSteps[rstep].gets = "none" THEN acquired
                   ELSE acquired \cup {RenderSteps[rstep].gets}
    /\ hist' = [hist EXCEPT !.got = acquired']
    /\ UNCHANGED <<url_in, use_js, url, meta, sections, interactions, errors, pc,
                   html, clicks, scrolls, visited_pages, cstep, expired, outcome>>
    /\ UNCHANGED <<parserVars, probeVars>>

\* an await of fetch() raises: fetch() returns False, _dynamic() goes to its
\* finally clause
RenderStepFails ==
    /\ pc = "render"
    /\ RenderSteps[rstep].fatal
    /\ sections' = _dynamic_sections(FALSE, html, url, sections)
    /\ rstep' = 0
    /\ visited_pages' = <<>>
    /\ CloseFrom(1, acquired, FALSE)
    /\ hist' = [hist EXCEPT !.render = "failed"]
    /\ UNCHANGED <<url_in, use_js, url, meta, interactions, acquired, html,
                   clicks, scrolls, expired>>
    /\ UNCHANGED <<parserVars, probeVars>>

\* page.content() answers: fetch() returns True, _dynamic() re-parses and
\* awaits perform_interactions(), which suspends in _click_tabs()
RenderSucceeds ==
    /\ pc = "render"
    /\ rstep = Len(RenderSteps)
    /\ \E doc \in RenderedDocs :
        /\ html' = doc
        /\ sections' = _dynamic_sections(TRUE, doc, url, sections)
        /\ hist' = [hist EXCEPT !.render = "ok", !.rendered = doc,
                                !.inter = "running",
                                !.started = Append(@, "interact")]
    /\ pc' = "tabs"
    /\ rstep' = 0
    /\ clicks' = <<>>
    /\ UNCHANGED <<url_in, use_js, url, meta, interactions, errors, acquired,
                   scrolls, visited_pages, cstep, expired, outcome>>
    /\ UNCHANGED <<parserVars, probeVars>>

ClickTabs ==
    /\ pc = "tabs"
    /\ \E succ \in TabOutcomes(MaxClicks) : clicks' = clicks \o _click_tabs(succ)
    /\ pc' = "load"
    /\ UNCHANGED <<url_in, use_js, url, meta, sections, interactions, errors,
                   rstep, acquired, html, scrolls, visited_pages, cstep, expired,
                   outcome, hist>>
    /\ UNCHANGED <<parserVars, probeVars>>

ClickLoadButtons ==
    /\ pc = "load"
    /\ \E succ \in LoadOutcomes(MaxClicks - Len(clicks)) : clicks' = clicks \o _click_load_buttons(succ)
    /\ pc' = "scroll"
    /\ UNCHANGED <<url_in, use_js, url, meta, sections, interactions, errors,
                   rstep, acquired, html, scrolls, visited_pages, cstep, expired,
                   outcome, hist>>
    /\ UNCHANGED <<parserVars, probeVars>>

\* mutant of ScrollForContent: the result carries the record as it grows
ScrollForContent_reporting ==
    /\ pc = "scroll"
    /\ \E step \in ScrollSteps :
        LET r == _scroll_for_content(scrolls, step)
        IN  /\ scrolls' = r.scrolls
            /\ pc' = IF r.again THEN "scroll" ELSE "pagination"
            /\ interactions' = [clicks |-> clicks, scrolls |-> r.scrolls,
                                pages |-> visited_pages]
    /\ UNCHANGED <<url_in, use_js, url, meta, sections, errors,
                   rstep, acquired, html, clicks, visited_pages, cstep, expired,
                   outcome, hist>>
    /\ UNCHANGED <<parserVars, probeVars>>

\* one iteration of the scroll loop; range(SCROLL_ATTEMPTS) is not empty, so
\* the loop is entered
ScrollForContent ==
    /\ pc = "scroll"
    /\ \E step \in ScrollSteps :
        LET r == _scroll_for_content(scrolls, step)
        IN  /\ scrolls' = r.scrolls
            /\ pc' = IF r.again THEN "scroll" ELSE "pagination"
    /\ UNCHANGED <<url_in, use_js, url, meta, sections, interactions, errors,
                   rstep, acquired, html, clicks, visited_pages, cstep, expired,
                   outcome, hist>>
    /\ UNCHANGED <<parserVars, probeVars>>

\* _handle_pagination() ends: perform_interactions() returns its record,
\* _dynamic() stores it and goes to its finally clause
HandlePagination ==
    /\ pc = "pagination"
    /\ \E hops \in HopOutcomes :
        LET pages == _handle_pagination(url, visited_pages, hops)
            rec == [clicks |-> clicks, scrolls |-> scrolls, pages |-> pages]
        IN  /\ interactions' = rec
            /\ hist' = [hist EXCEPT !.inter = "done", !.record = rec]
    /\ clicks' = <<>>
    /\ scrolls' = 0
    /\ visited_pages' = <<>>
    /\ CloseFrom(1, acquired, FALSE)
    /\ UNCHANGED <<url_in, use_js, url, meta, sections, rstep, acquired, html,
                   expired>>
    /\ UNCHANGED <<parserVars, probeVars>>

\* the release close() awaits completes; close() goes on to the next one
CloseStepDone ==
    /\ pc = "close"
    /\ acquired' = acquired \ {CloseOrder[cstep]}
    /\ hist' = [hist EXCEPT !.closeCalled = Append(@, CloseOrder[cstep])]
    /\ CloseFrom(cstep + 1, acquired, expired)
    /\ UNCHANGED <<url_in, use_js, url, meta, sections, interactions, rstep,
                   html, clicks, scrolls, visited_pages, expired>>
    /\ UNCHANGED <<parserVars, probeVars>>

\* the release close() awaits raises: the except clause logs it and close()
\* returns without the releases that follow
CloseStepFails ==
    /\ pc = "close"
    /\ hist' = [hist EXCEPT !.closeCalled = Append(@, CloseOrder[cstep])]
    /\ Return(errors, expired)
    /\ UNCHANGED <<url_in, use_js, url, meta, sections, interactions, rstep,
                   acquired, html, clicks, scrolls, visited_pages, expired>>
    /\ UNCHANGED <<parserVars, probeVars>>

\* asyncio.wait_for: the global deadline fires while the task is suspended.
\* CancelledError is no Exception: no except clause of the pipeline catches
\* it, the finally clause of _dynamic() runs close()
Suspended == {"static_fetch", "render", "tabs", "load", "scroll", "pagination", "close"}

Timeout ==
    /\ pc \in Suspended
    /\ ~expired
    /\ expired' = TRUE
    /\ hist' = [hist EXCEPT
                  !.snap = [taken |-> TRUE, meta |-> meta, sections |-> sections,
                            interactions |-> interactions, errors |-> errors,
                            started |-> hist.started, clicked |-> clicks # <<>>,
                            scrolled |-> scrolls > 0],
                  !.closeCalled = IF pc = "close"
                                  THEN Append(@, CloseOrder[cstep]) ELSE @]
    /\ IF pc \in {"static_fetch", "close"}
       THEN Return(errors, TRUE)
       ELSE CloseFrom(1, acquired, TRUE)
    /\ rstep' = 0
    /\ clicks' = <<>>
    /\ scrolls' = 0
    /\ visited_pages' = <<>>
    /\ UNCHANGED <<url_in, use_js, url, meta, sections, interactions, acquired,
                   html>>
    /\ UNCHANGED <<parserVars, probeVars>>

Next ==
    \/ Scrape
    \/ StaticFetchFails
    \/ StaticFetchSucceeds
    \/ RenderStepDone
    \/ RenderStepFails
    \/ RenderSucceeds
    \/ ClickTabs
    \/ ClickLoadButtons
    \/ ScrollForContent
    \/ HandlePagination
    \/ CloseStepDone
    \/ CloseStepFails
    \/ Timeout

Spec == Init /\ [][Next]_vars

-----------------------------------------------------------------------------
(* A stand-alone SectionParser: SectionParser(soup, url).parse_sections() *)

engineVars == <<url_in, use_js, url, meta, sections, interactions, errors, rstep,
                acquired, html, clicks, scrolls, visited_pages, cstep, expired,
                outcome, hist>>

InitParse ==
    /\ url_in \in ValidUrls
    /\ use_js = "False"
    /\ Constructed
    /\ pc = "parse"
    /\ soup \in ParseDocs
    /\ parsed = <<>>
    /\ ProbeIdle

Parse ==
    /\ pc = "parse"
    /\ parsed' = parse_sections(soup, url)
    /\ pc' = "parsed"
    /\ UNCHANGED <<engineVars, soup, probeVars>>

NextParse == Parse

SpecParse == InitParse /\ [][NextParse]_vars


-----------------------------------------------------------------------------
(* The interaction phase step by step: a DynamicScraper whose fetch() has  *)
(* returned True runs _scroll_for_content() and _handle_pagination() on a  *)
(* page that offered nothing to the two click heuristics, for an engine    *)
(* constructed with any max_depth a request can carry; next to it an       *)
(* InteractionHandler of the same URL takes add_page calls.                *)

\* ScrapeRequest.max_depth: Field(default=3, ge=1, le=5)
RequestDepths == 1..5

AllAcquired == {"playwright", "browser", "context", "page"}

\* a DynamicScraper(url) whose fetch() returned True: the session is acquired,
\* visited_pages is [url]
Fetched ==
    /\ url_in \in ValidUrls
    /\ use_js = "True"
    /\ url = clean_url(url_in)
    /\ meta = {}
    /\ sections = <<>>
    /\ interactions = DefaultInteractions(url)
    /\ errors = <<>>
    /\ rstep = 0
    /\ acquired = AllAcquired
    /\ html = DocRendered
    /\ clicks = <<>>
    /\ scrolls = 0
    /\ visited_pages = <<url>>
    /\ cstep = 0
    /\ expired = FALSE
    /\ outcome = "running"
    /\ hist = [static |-> "none", staticSections |-> <<>>, dynInvoked |-> TRUE,
               render |-> "ok", rendered |-> DocRendered, inter |-> "running",
               record |-> DefaultInteractions(url), started |-> <<>>,
               got |-> AllAcquired, closeCalled |-> <<>>, snap |-> NoSnap]
    /\ ParserIdle

InitInteract ==
    /\ Fetched
    /\ max_depth \in RequestDepths
    /\ pc = "scroll"
    /\ hop = 0
    /\ cand = 0
    /\ ilog = [NoLog EXCEPT !.attempted = <<"tabs", "load", "scroll">>]
    /\ handler = DefaultInteractions(url)
    /\ ledger = NoLedger
    /\ sched = NoSched

sessionVars == <<url_in, use_js, url, meta, sections, errors, rstep, acquired,
                 html, cstep, expired, outcome, hist>>

\* one iteration of the scroll loop; after the last one _handle_pagination()
\* starts its first hop at its first selector
ScrollIteration ==
    /\ pc = "scroll"
    /\ \E step \in ScrollSteps :
        LET r == _scroll_for_content(scrolls, step)
        IN  /\ scrolls' = r.scrolls
            /\ pc' = IF r.again THEN "scroll" ELSE "pagination"
            /\ cand' = IF r.again THEN cand ELSE 1
            /\ ilog' = [(IF step.raise THEN Failed(ilog, "scroll") ELSE ilog) EXCEPT
                          !.last = IF r.again THEN step ELSE NoStep,
                          !.iters = IF step.raise THEN @ ELSE @ + 1,
                          !.attempted = IF r.again THEN @ ELSE Append(@, "pagination")]
    /\ UNCHANGED <<sessionVars, parserVars, interactions, clicks, visited_pages,
                   max_depth, hop, handler, ledger, sched>>

\* perform_interactions() returns its record
FinishInteractions(pages) ==
    /\ interactions' = [clicks |-> clicks, scrolls |-> scrolls, pages |-> pages]
    /\ pc' = "idone"
    /\ cand' = 0

\* the inner loop goes on to the next selector, or, with none left, ends the
\* outer loop with found False
NextCandidate ==
    IF cand < Len(NextSelectors)
    THEN /\ cand' = cand + 1
         /\ UNCHANGED <<interactions, pc>>
    ELSE FinishInteractions(visited_pages)

\* the selector matches nothing, or an invisible link, or a link without
\* href
CandidateSkipped ==
    /\ pc = "pagination"
    /\ NextCandidate
    /\ UNCHANGED <<sessionVars, parserVars, clicks, scrolls, visited_pages,
                   max_depth, hop, ilog, handler, ledger, sched>>

\* query_selector, is_visible, get_attribute or click raises: the except
\* clause continues with the next selector
CandidateRaises ==
    /\ pc = "pagination"
    /\ ilog' = Failed(ilog, "pagination")
    /\ NextCandidate
    /\ UNCHANGED <<sessionVars, parserVars, clicks, scrolls, visited_pages,
                   max_depth, hop, handler, ledger, sched>>

\* the link is clicked and wait_for_load_state raises: the except clause
\* continues with the next selector
CandidateStalls ==
    /\ pc = "pagination"
    /\ ilog' = [Failed(ilog, "pagination") EXCEPT !.navClicked = TRUE,
                                                  !.hopClicks = @ + 1]
    /\ NextCandidate
    /\ UNCHANGED <<sessionVars, parserVars, clicks, scrolls, visited_pages,
                   max_depth, hop, handler, ledger, sched>>

\* the link is clicked and the page settles on page k: the hop is recorded,
\* found ends the inner loop, the outer loop goes on while range() allows
CandidateFollowed ==
    /\ pc = "pagination"
    /\ \E k \in 0..MaxPageId :
        LET current == PageUrl(url, k)
            pages == visit(visited_pages, current)
        IN  /\ visited_pages' = pages
            /\ ilog' = [ilog EXCEPT !.navClicked = TRUE,
                                    !.revisits = IF pages = visited_pages
                                                 THEN @ + 1 ELSE @,
                                    !.hopClicks = IF hop + 1 < MAX_DEPTH - 1
                                                  THEN 0 ELSE @ + 1,
                                    !.landed = Append(@, k)]
            /\ hop' = hop + 1
            /\ IF hop + 1 < MAX_DEPTH - 1
               THEN /\ cand' = 1
                    /\ UNCHANGED <<interactions, pc>>
               ELSE FinishInteractions(pages)
    /\ UNCHANGED <<sessionVars, parserVars, clicks, scrolls, max_depth, handler, ledger, sched>>

\* InteractionHandler.add_page(u), called with any URL or with ""
HandlerAddPage ==
    /\ \E u \in {PageUrl(url, k) : k \in 0..MaxPageId} \cup {<<>>} :
          handler' = add_page(handler, u)
    /\ UNCHANGED <<sessionVars, parserVars, interactions, pc, clicks, scrolls,
                   visited_pages, max_depth, hop, cand, ilog, ledger, sched>>

NextInteract ==
    \/ ScrollIteration
    \/ CandidateSkipped
    \/ CandidateRaises
    \/ CandidateStalls
    \/ CandidateFollowed
    \/ HandlerAddPage

SpecInteract == InitInteract /\ [][NextInteract]_vars

-----------------------------------------------------------------------------
(* Properties *)

Returned == outcome = "returned"

HasPhase(errs, phase) == \E i \in 1..Len(errs) : errs[i].phase = phase

CountPhase(errs, phase) == Cardinality({i \in 1..Len(errs) : errs[i].phase = phase})

TimeoutEntry == [message |-> "Scraping exceeded global timeout", phase |-> "timeout"]

SessionResources == {"playwright", "browser", "context"}

\* what parse_sections extracts from each document of the model, per base URL
ExtractedFrom ==
    [doc \in StaticDocs \cup RenderedDocs, base_url \in {clean_url(u) : u \in Urls}
        |-> parse_sections(doc, base_url)]

\* C1: scrape() always ends by returning its result, and every failure of the
\* run (rejected URL, failed static fetch, failed render, expired deadline) has
\* an ErrorEntry of its phase in result.errors.
C1_FailuresBecomeEntries ==
    pc = "done" =>
        /\ Returned
        /\ (hist.started = <<>> => HasPhase(errors, "validation"))
        /\ (hist.static = "failed" => HasPhase(errors, "fetch"))
        /\ (hist.render = "failed" => HasPhase(errors, "render"))
        /\ (expired => HasPhase(errors, "timeout"))

\* C2: once the deadline has expired, meta, sections and interactions keep the
\* values they had at the expiry, no stage is started, and the returned errors
\* are the errors at the expiry followed by exactly one timeout entry.
C2_ExpiryKeepsResult ==
    expired =>
        /\ meta = hist.snap.meta
        /\ sections = hist.snap.sections
        /\ interactions = hist.snap.interactions
        /\ hist.started = hist.snap.started
        /\ errors = IF Returned THEN Append(hist.snap.errors, TimeoutEntry)
                    ELSE hist.snap.errors

\* C2 witness: the deadline expired during the interaction phase, the session
\* was cleaned up and scrape() returned.
C2_Witness ==
    /\ Returned
    /\ expired
    /\ hist.inter = "running"
    /\ hist.snap.sections # <<>>
    /\ hist.closeCalled # <<>>

\* C3: when the static fetch succeeded, the dynamic path was triggered and the
\* deadline expired before the dynamic phase completed, the returned sections
\* are the static-derived ones, they are not empty, and errors holds exactly
\* one timeout entry.
C3_ExpiryReturnsStaticSections ==
    (Returned /\ hist.static = "ok" /\ hist.dynInvoked /\ expired
        /\ hist.inter # "done") =>
        /\ sections = hist.staticSections
        /\ CountPhase(errors, "timeout") = 1
        /\ sections # <<>>

\* C4: when scrape() returns, the release of every session resource that was
\* acquired (driver, browser, context) has been called.
C4_AcquiredAreReleased ==
    Returned =>
        \A r \in hist.got \cap SessionResources :
            \E i \in 1..Len(hist.closeCalled) : hist.closeCalled[i] = r

\* C5: a failed static fetch leaves a fetch entry and empty sections, a failed
\* render leaves a render entry.
C5_FailedStageHasEntry ==
    Returned =>
        /\ (hist.static = "failed" => HasPhase(errors, "fetch") /\ sections = <<>>)
        /\ (hist.render = "failed" => HasPhase(errors, "render"))

\* C6: after a failed static fetch no later stage runs: no browser session, no
\* interaction, and the result keeps empty sections and the default
\* interactions.
C6_StaticFailureStops ==
    hist.static = "failed" =>
        /\ ~hist.dynInvoked
        /\ hist.got = {}
        /\ hist.inter = "none"
        /\ sections = <<>>
        /\ interactions = DefaultInteractions(url)

\* C7: an input URL with a scheme outside the allowed set starts no stage and
\* returns a validation entry with empty sections.
C7_DisallowedSchemeRejected ==
    LET scheme == urlparse(url_in).scheme
    IN  (scheme # <<>> /\ scheme \notin ALLOWED_SCHEMES) =>
            /\ hist.started = <<>>
            /\ (Returned => HasPhase(errors, "validation") /\ sections = <<>>)

\* C8: after a successful static fetch the dynamic renderer is invoked exactly
\* when use_js is set or the static sections hold fewer than
\* JS_FALLBACK_MIN_TEXT characters of text; when it is not invoked no session
\* resource is acquired and interactions stay the default record.
C8_DynamicTrigger ==
    hist.static = "ok" =>
        /\ hist.dynInvoked <=>
              (use_js = "True" \/ TotalText(hist.staticSections) < JS_FALLBACK_MIN_TEXT)
        /\ ~hist.dynInvoked =>
              /\ hist.render = "none"
              /\ hist.got = {}
              /\ interactions = DefaultInteractions(url)

\* C8 witness: a run returned without the dynamic path, its static text being
\* exactly at the threshold.
C8_Witness ==
    /\ Returned
    /\ hist.static = "ok"
    /\ ~hist.dynInvoked
    /\ TotalText(sections) = JS_FALLBACK_MIN_TEXT

\* C9: after a failed render the sections are the static-derived ones and the
\* interactions are the default record.
C9_RenderFailureKeepsStatic ==
    hist.render = "failed" =>
        /\ sections = hist.staticSections
        /\ interactions = DefaultInteractions(url)

\* C9 witness: the render failed with part of the session acquired, over
\* non-empty static sections, and scrape() returned.
C9_Witness ==
    /\ Returned
    /\ hist.render = "failed"
    /\ hist.got # {}
    /\ sections # <<>>

C11_StaticSuccessHasSection ==
    (Returned /\ hist.static = "ok") => Len(sections) >= 1

-----------------------------------------------------------------------------
(* Properties of parse_sections, under SpecParse *)

Parsed == pc = "parsed"

\* the candidates the loop of parse_sections enumerates for document d
CandidatesOf(d) ==
    LET semantic == _find_semantic_sections(d)
    IN  IF Len(semantic) < 2 THEN semantic \o _find_content_divs(d) ELSE semantic

CandidateText(el) == sanitize_text(strip(el.text))

\* the candidates of d that have text and are no nav of fewer than 50 characters
Passing(d) ==
    LET c == CandidatesOf(d)
    IN  {i \in 1..Len(c) :
            /\ CandidateText(c[i]) # <<>>
            /\ ~(c[i].tag = "nav" /\ Len(CandidateText(c[i])) < 50)}

IsFallback(s) == s.id = <<"main", 0>> /\ s.type = "section"

\* the raw HTML section s of the result was made from
OriginalHtml(d, s) ==
    IF IsFallback(s) THEN body_html(d) ELSE CandidatesOf(d)[s.id[2] + 1].html

IsAbsoluteUrl(u) == urlparse(u).scheme # <<>> /\ urlparse(u).netloc # <<>>

IsReference(u) ==
    ~(\/ startswith(u, <<"#">>)
      \/ startswith(u, JAVASCRIPT)
      \/ startswith(u, MAILTO)
      \/ startswith(u, DATA))

\* C12: parse_sections returns at least one section; when no candidate passes
\* the empty-text and nav-size filters (deduplication cannot remove every
\* candidate) the result is exactly the section main-0 of type section
\* labelled Main Content.
C12_AtLeastOneSection ==
    Parsed =>
        /\ Len(parsed) >= 1
        /\ Passing(soup) = {} =>
              /\ Len(parsed) = 1
              /\ parsed[1].id = <<"main", 0>>
              /\ parsed[1].type = "section"
              /\ parsed[1].label = <<"M","a","i","n"," ","C","o","n","t","e","n","t">>

\* C12 witness: a document with candidates, none of which passes the filters,
\* was parsed into the fallback section.
C12_Witness ==
    /\ Parsed
    /\ CandidatesOf(soup) # <<>>
    /\ Passing(soup) = {}
    /\ IsFallback(parsed[1])

\* C13: every section parse_sections returns, the fallback included, has a
\* non-empty content.text.
C13_TextNeverEmpty ==
    Parsed => \A k \in 1..Len(parsed) : parsed[k].content.text # <<>>

\* C14: no two sections of one result agree on the first 300 characters of
\* their text.
C14_DistinctPrefixes ==
    Parsed =>
        \A j, k \in 1..Len(parsed) :
            j # k => Take(parsed[j].content.text, 300) # Take(parsed[k].content.text, 300)

\* C14 witness: two candidates with different texts that agree on their first
\* 300 characters were parsed into one section.
C14_Witness ==
    /\ Parsed
    /\ Len(parsed) = 1
    /\ \E i, j \in Passing(soup) :
          /\ i < j
          /\ CandidateText(CandidatesOf(soup)[i]) # CandidateText(CandidatesOf(soup)[j])
          /\ Take(CandidateText(CandidatesOf(soup)[i]), 300)
                = Take(CandidateText(CandidatesOf(soup)[j]), 300)

\* C15: every nav section of the result has at least 50 characters of text,
\* and every candidate that has text and is no short nav has the first 300
\* characters of its text in the result: a dropped nav blocks none.
C15_NoTinyNav ==
    Parsed =>
        /\ \A k \in 1..Len(parsed) :
              parsed[k].type = "nav" => Len(parsed[k].content.text) >= 50
        /\ \A i \in Passing(soup) :
              \E k \in 1..Len(parsed) :
                  Take(parsed[k].content.text, 300)
                      = Take(CandidateText(CandidatesOf(soup)[i]), 300)

\* C15 witness: a short nav was dropped and a later candidate with the same
\* text was accepted.
C15_Witness ==
    /\ Parsed
    /\ \E i, j \in 1..Len(CandidatesOf(soup)) :
          /\ i < j
          /\ CandidatesOf(soup)[i].tag = "nav"
          /\ CandidatesOf(soup)[j].tag # "nav"
          /\ CandidateText(CandidatesOf(soup)[i]) = CandidateText(CandidatesOf(soup)[j])
          /\ Len(CandidateText(CandidatesOf(soup)[i])) \in 1..49
          /\ \E k \in 1..Len(parsed) :
                /\ parsed[k].type = CandidatesOf(soup)[j].tag
                /\ parsed[k].content.text = CandidateText(CandidatesOf(soup)[j])

\* C16: every link href and every image src of a returned section is an
\* absolute URL and starts with none of #, javascript:, mailto:, data: .
C16_ReferencesAbsolute ==
    Parsed =>
        \A k \in 1..Len(parsed) :
            /\ \A i \in 1..Len(parsed[k].content.links) :
                  /\ IsAbsoluteUrl(parsed[k].content.links[i].href)
                  /\ IsReference(parsed[k].content.links[i].href)
            /\ \A i \in 1..Len(parsed[k].content.images) :
                  /\ IsAbsoluteUrl(parsed[k].content.images[i].src)
                  /\ IsReference(parsed[k].content.images[i].src)

\* C17: a section is marked truncated exactly when the raw HTML it was made
\* from is longer than MAX_RAW_HTML_LENGTH; its rawHtml is then the first
\* MAX_RAW_HTML_LENGTH characters followed by "...", and the raw HTML itself
\* otherwise.
C17_TruncationExact ==
    Parsed =>
        \A k \in 1..Len(parsed) :
            LET orig == OriginalHtml(soup, parsed[k])
            IN  /\ parsed[k].truncated <=> Len(orig) > MAX_RAW_HTML_LENGTH
                /\ parsed[k].rawHtml =
                      IF parsed[k].truncated
                      THEN Take(orig, MAX_RAW_HTML_LENGTH) \o <<".", ".", ".">>
                      ELSE orig

\* C17 witness: one result holds a truncated section and a section whose raw
\* HTML has exactly MAX_RAW_HTML_LENGTH characters and is kept whole.
C17_Witness ==
    /\ Parsed
    /\ \E k \in 1..Len(parsed) :
          parsed[k].truncated /\ Len(parsed[k].rawHtml) = MAX_RAW_HTML_LENGTH + 3
    /\ \E k \in 1..Len(parsed) :
          ~parsed[k].truncated /\ Len(parsed[k].rawHtml) = MAX_RAW_HTML_LENGTH

-----------------------------------------------------------------------------
(* Properties of the interaction phase, under SpecInteract *)

NoDuplicate(pages) ==
    \A i, j \in 1..Len(pages) : i # j => pages[i] # pages[j]

\* C18: the scroll probe stops at the first iteration whose height after the
\* scroll is not greater than the height before it (it goes on only after an
\* iteration that grew the page), and it returns the number of iterations
\* that measured both heights.
C18_ScrollStopsWhenNotGrowing ==
    /\ (pc = "scroll" /\ ilog.iters > 0) => ilog.last.new > ilog.last.old
    /\ pc # "scroll" => scrolls = ilog.iters

\* C19: the pagination follows at most max_depth - 1 hops, max_depth being the
\* one given to the engine; with max_depth 1 no next-page link is clicked and
\* the visited pages stay the origin alone.
C19_HopsBoundedByRequest ==
    /\ hop <= max_depth - 1
    /\ max_depth = 1 => ~ilog.navClicked /\ visited_pages = <<url>>

\* C20: the visited pages of the scraper, the pages of the record it returns
\* and the pages of an InteractionHandler hold no URL twice and start with
\* the normalized origin URL.
C20_PagesDistinctFromOrigin ==
    \A pages \in {visited_pages, interactions.pages, handler.pages} :
        /\ NoDuplicate(pages)
        /\ pages[1] = clean_url(url_in)

\* C20 witness: the interaction phase returned a record of two pages after a
\* hop that landed on a page already visited, and the handler recorded a
\* second page.
C20_Witness ==
    /\ pc = "idone"
    /\ Len(interactions.pages) = 2
    /\ ilog.revisits >= 1
    /\ Len(handler.pages) >= 2


-----------------------------------------------------------------------------
(* Properties of the discovery of candidates, under SpecParse *)

\* document d with each element carrying its position in the document
Indexed(d) == [i \in 1..Len(d) |-> d[i] @@ [pos |-> i]]

\* the position in the document of the element section s was made from
SourcePos(d, s) == CandidatesOf(Indexed(d))[s.id[2] + 1].pos

IsContainer(s) == s.type = "div"

IsPrimary(s) == ~IsFallback(s) /\ ~IsContainer(s)

\* C26: the sections made from landmark elements come in the document order
\* of their elements whatever their tags, and no section made from a generic
\* container comes before one made from a landmark element.
C26_DocumentOrder ==
    Parsed =>
        \A j, k \in 1..Len(parsed) :
            j < k =>
                /\ (IsPrimary(parsed[j]) /\ IsPrimary(parsed[k]))
                      => SourcePos(soup, parsed[j]) < SourcePos(soup, parsed[k])
                /\ ~(IsContainer(parsed[j]) /\ IsPrimary(parsed[k]))


Landmarks == {"main", "section", "article", "nav", "aside", "footer", "header"}

\* the number of landmark elements of document d
LandmarkCount(d) == Cardinality({i \in 1..Len(d) : d[i].tag \in Landmarks})

\* the div elements of d with 300 characters of normalized text and two
\* direct div children
Qualifying(d) ==
    {i \in 1..Len(d) : /\ d[i].tag = "div"
                       /\ Len(CandidateText(d[i])) >= 300
                       /\ d[i].ndiv >= 2}

\* C27: a section is made from a div only when the document has fewer than 2
\* landmark elements, and then only from a div with at least 300 characters
\* of normalized text and at least 2 direct div children; with fewer than 2
\* landmark elements every such div yields a section, unless a kept section
\* has the same first 300 characters.
C27_ContainersOnlyWithoutLandmarks ==
    Parsed =>
        /\ LandmarkCount(soup) >= 2
              => \A k \in 1..Len(parsed) : ~IsContainer(parsed[k])
        /\ \A k \in 1..Len(parsed) :
              IsContainer(parsed[k]) =>
                  \E i \in Qualifying(soup) : soup[i].html = parsed[k].rawHtml
        /\ LandmarkCount(soup) < 2 =>
              \A i \in Qualifying(soup) :
                  \E k \in 1..Len(parsed) :
                      Take(parsed[k].content.text, 300)
                          = Take(CandidateText(soup[i]), 300)

\* C27 witness: a document with one landmark element and a qualifying div was
\* parsed into a section of each.
C27_Witness ==
    /\ Parsed
    /\ LandmarkCount(soup) = 1
    /\ Qualifying(soup) # {}
    /\ \E j, k \in 1..Len(parsed) : IsPrimary(parsed[j]) /\ IsContainer(parsed[k])

\* a document with two landmark elements and a qualifying div was parsed
\* into sections of the landmark elements alone
C27_LandmarksShadowContainers ==
    /\ Parsed
    /\ LandmarkCount(soup) >= 2
    /\ Qualifying(soup) # {}
    /\ \A k \in 1..Len(parsed) : IsPrimary(parsed[k])


-----------------------------------------------------------------------------
(* Properties of the synthesized section, under SpecParse *)

\* C29: the content of the synthesized fallback section holds every heading,
\* link and image that the extraction rules of a regular candidate find in an
\* element of the document body.
C29_FallbackExtractsBody ==
    (Parsed /\ IsFallback(parsed[1])) =>
        \A i \in 1..Len(body_of(soup)) :
            LET found == _extract_content(body_of(soup)[i], url)
                content == parsed[1].content
            IN  /\ \A j \in 1..Len(found.headings) :
                      \E k \in 1..Len(content.headings) :
                          content.headings[k] = found.headings[j]
                /\ \A j \in 1..Len(found.links) :
                      \E k \in 1..Len(content.links) :
                          content.links[k] = found.links[j]
                /\ \A j \in 1..Len(found.images) :
                      \E k \in 1..Len(content.images) :
                          content.images[k] = found.images[j]


-----------------------------------------------------------------------------
(* Properties of the browser session, under Spec *)

\* the position of the acquisition of resource r among the awaits of fetch()
AcquireRank(r) == CHOOSE k \in 1..Len(RenderSteps) : RenderSteps[k].gets = r

\* C28: the releases called so far are releases of resources that were
\* acquired, and each release is of a resource acquired before the resource
\* of the release preceding it, so that no resource is released twice.
C28_ReleasedInReverse ==
    /\ \A i \in 1..Len(hist.closeCalled) : hist.closeCalled[i] \in hist.got
    /\ \A i, j \in 1..Len(hist.closeCalled) :
          i < j => AcquireRank(hist.closeCalled[i]) > AcquireRank(hist.closeCalled[j])

\* C28 witness: scrape() returned after releasing context, browser and driver,
\* three releases in all.
C28_Witness ==
    /\ Returned
    /\ hist.got = {"playwright", "browser", "context", "page"}
    /\ Len(hist.closeCalled) = 3

\* scrape() returned after a launch that failed: the driver alone was
\* acquired and the driver alone was released
C28_PartialSession ==
    /\ Returned
    /\ hist.got = {"playwright"}
    /\ hist.closeCalled = <<"playwright">>


-----------------------------------------------------------------------------
(* clean_url on its own: clean_url(url_in) *)

\* the inputs of clean_url: blanks, slashes and a letter, bare or after a
\* blank, after a scheme, or after both
CleanInputs ==
    {lead \o scheme \o rest :
        lead \in {<<>>, <<" ">>},
        scheme \in {<<>>, HTTP, HTTPS},
        rest \in UNION {[1..n -> {" ", "/", "x"}] : n \in 0..MaxUrlLen}}

InitClean ==
    /\ url_in \in CleanInputs
    /\ use_js = "False"
    /\ url = <<>>
    /\ Fresh
    /\ pc = "clean"
    /\ ParserIdle
    /\ ProbeIdle

CleanUrl ==
    /\ pc = "clean"
    /\ url' = clean_url(url_in)
    /\ pc' = "cleaned"
    /\ UNCHANGED <<url_in, use_js, meta, sections, interactions, errors, rstep,
                   acquired, html, clicks, scrolls, visited_pages, cstep, expired,
                   outcome, hist>>
    /\ UNCHANGED <<parserVars, probeVars>>

NextClean == CleanUrl

SpecClean == InitClean /\ [][NextClean]_vars

-----------------------------------------------------------------------------
(* Properties of clean_url, under SpecClean *)

Cleaned == pc = "cleaned"

\* u without its first a and its last b characters
Core(u, a, b) == SubSeq(u, a + 1, Len(u) - b)

\* the first a and the last b characters of u are its surrounding whitespace
Surround(u, a, b) ==
    /\ a + b <= Len(u)
    /\ \A i \in 1..a : u[i] = " "
    /\ \A i \in (Len(u) - b + 1)..Len(u) : u[i] = " "
    /\ Core(u, a, b) = <<>> \/ (Head(Core(u, a, b)) # " "
                                /\ Core(u, a, b)[Len(Core(u, a, b))] # " ")

WithScheme(t) == IF startswith(t, HTTP) \/ startswith(t, HTTPS) THEN t ELSE HTTPS \o t

EndsWith(s, c) == s # <<>> /\ s[Len(s)] = c

\* u has an http(s) scheme, no surrounding whitespace and no trailing slash
Clean(u) ==
    /\ startswith(u, HTTP) \/ startswith(u, HTTPS)
    /\ ~EndsWith(u, " ")
    /\ ~EndsWith(u, "/")

\* C24 as stated: the result is the trimmed input, prefixed with https://
\* unless it starts with http:// or https://, without one trailing slash, and
\* a clean URL is returned unchanged.
C24_CleanUrlAsStated ==
    Cleaned =>
        /\ \E a, b \in 0..Len(url_in) :
              /\ Surround(url_in, a, b)
              /\ LET p == WithScheme(Core(url_in, a, b))
                 IN  url = IF EndsWith(p, "/") THEN SubSeq(p, 1, Len(p) - 1) ELSE p
        /\ Clean(url_in) => url = url_in

\* C24 amended: an empty input is returned unchanged; for any other input the
\* result is the trimmed input, prefixed with https:// unless it starts with
\* http:// or https://, without any of its trailing slashes; a clean URL is
\* returned unchanged.
C24_CleanUrl ==
    Cleaned =>
        /\ url_in = <<>> => url = <<>>
        /\ url_in # <<>> =>
              \E a, b \in 0..Len(url_in) :
                  /\ Surround(url_in, a, b)
                  /\ ~EndsWith(url, "/")
                  /\ \E k \in 0..(Len(url_in) + Len(HTTPS)) :
                        url \o Rep("/", k) = WithScheme(Core(url_in, a, b))
        /\ Clean(url_in) => url = url_in

\* C24 witness: an input with surrounding whitespace, no scheme and a trailing
\* slash was cleaned.
C24_Witness ==
    /\ Cleaned
    /\ url_in = <<" ", "x", "/", " ">>
    /\ url = HTTPS \o <<"x">>


-----------------------------------------------------------------------------
(* Properties of the pagination loop, under SpecInteract *)

\* C30: in a hop at most one next-page link is clicked, the first that
\* qualifies, and the loop ends before its last hop only in a hop in which no
\* link was clicked.
C30_FirstQualifyingOnly ==
    /\ ilog.hopClicks <= 1
    /\ (pc = "idone" /\ hop < MAX_DEPTH - 1) => ilog.hopClicks = 0


-----------------------------------------------------------------------------
(* perform_interactions() of a DynamicScraper whose fetch() returned True,  *)
(* the click heuristics run selector by selector, the scroll loop iteration *)
(* by iteration, the pagination loop selector by selector                   *)

InitPhase ==
    /\ Fetched
    /\ pc = "tabs"
    /\ max_depth = 3
    /\ hop = 0
    /\ cand = 1
    /\ ilog = [NoLog EXCEPT !.attempted = <<"tabs">>]
    /\ handler = DefaultInteractions(<<>>)
    /\ ledger = NoLedger
    /\ sched = NoSched

\* the selectors and the slice of the click heuristic the task is in
Selectors == IF pc = "tabs" THEN TabSelectors ELSE LoadSelectors

\* mutant of Quota: the slices are one element longer
Quota_longer == IF pc = "tabs" THEN TabQuota + 1 ELSE LoadQuota + 1

Quota == IF pc = "tabs" THEN TabQuota ELSE LoadQuota

\* query_selector_all(selector) of a click heuristic answers: it raises and
\* the loop goes on with the next selector, or it returns elements
QuerySelector ==
    /\ pc \in {"tabs", "load"}
    /\ cand <= Len(Selectors)
    /\ ~ilog.queried
    /\ \E answer \in QueryAnswers(Quota, MaxClicks - Len(clicks)) :
        IF answer.raise
        THEN LET r == Raised("query_selector_all",
                             [n |-> 0, failed |-> FALSE, escaped |-> FALSE])
             IN  /\ ilog' = [Failed(ilog, pc) EXCEPT !.got = r.n]
                 /\ IF r.escaped
                    THEN pc' = "raised" /\ cand' = cand
                    ELSE pc' = pc /\ cand' = cand + 1
        ELSE /\ ilog' = [ilog EXCEPT !.queried = TRUE, !.matches = answer.elements]
             /\ UNCHANGED <<pc, cand>>
    /\ UNCHANGED <<url_in, use_js, url, meta, sections, interactions, errors,
                   rstep, acquired, html, clicks, scrolls, visited_pages, cstep,
                   expired, outcome, hist, parserVars, max_depth, hop, handler, ledger, sched>>

\* the loop over elements[:3] or buttons[:2] of the selector
ClickMatches ==
    /\ pc \in {"tabs", "load"}
    /\ ilog.queried
    /\ LET r == ClickLoop(Take(ilog.matches, Quota))
       IN  /\ clicks' = clicks \o Rep(Selectors[cand], r.n)
           /\ ilog' = [(IF r.failed THEN Failed(ilog, pc) ELSE ilog) EXCEPT
                          !.queried = FALSE, !.matches = <<>>, !.got = r.n]
           /\ IF r.escaped
              THEN pc' = "raised" /\ cand' = cand
              ELSE pc' = pc /\ cand' = cand + 1
    /\ UNCHANGED <<url_in, use_js, url, meta, sections, interactions, errors,
                   rstep, acquired, html, scrolls, visited_pages, cstep, expired,
                   outcome, hist, parserVars, max_depth, hop, handler, ledger, sched>>

\* the click heuristic returns its list: perform_interactions() extends clicks
\* with it and awaits the next heuristic
ClicksReturn ==
    /\ pc \in {"tabs", "load"}
    /\ cand = Len(Selectors) + 1
    /\ pc' = IF pc = "tabs" THEN "load" ELSE "scroll"
    /\ cand' = IF pc = "tabs" THEN 1 ELSE 0
    /\ ilog' = [ilog EXCEPT !.got = 0, !.attempted = Append(@, pc')]
    /\ UNCHANGED <<url_in, use_js, url, meta, sections, interactions, errors,
                   rstep, acquired, html, clicks, scrolls, visited_pages, cstep,
                   expired, outcome, hist, parserVars, max_depth, hop, handler, ledger, sched>>

NextPhase ==
    \/ QuerySelector
    \/ ClickMatches
    \/ ClicksReturn
    \/ ScrollIteration
    \/ CandidateSkipped
    \/ CandidateRaises
    \/ CandidateStalls
    \/ CandidateFollowed

SpecPhase == InitPhase /\ [][NextPhase]_vars


-----------------------------------------------------------------------------
(* Properties of perform_interactions(), under SpecPhase *)

\* C21: no exception of a sub-step leaves a heuristic; when
\* perform_interactions() returns, it returns the record of clicks, scrolls and
\* pages, and the four heuristics were entered, each once and in order,
\* whichever of them had a sub-step fail.
C21_FailuresStayInside ==
    /\ pc # "raised"
    /\ pc = "idone" =>
          /\ ilog.attempted = <<"tabs", "load", "scroll", "pagination">>
          /\ interactions = [clicks |-> clicks, scrolls |-> scrolls,
                             pages |-> visited_pages]

\* C21 witness: perform_interactions() returned its record after a sub-step of
\* the tab activation, the first heuristic, had failed.
C21_Witness ==
    /\ pc = "idone"
    /\ ilog.firstFailure = "tabs"
    /\ ilog.attempted = <<"tabs", "load", "scroll", "pagination">>
    /\ interactions.pages = visited_pages

\* the matches of m that are visible, and the first q of them
VisibleAt(m) == {i \in 1..Len(m) : m[i] \in {"visible", "stuck"}}

FirstVisible(m, q) ==
    {i \in VisibleAt(m) : Cardinality({j \in VisibleAt(m) : j < i}) < q}

\* C25: the click loop of a selector clicks the first 3 (tabs) or 2 (load-more)
\* visible matches, wherever the invisible matches stand among them, and
\* appends the selector to clicks once for each of these clicks that succeeds.
C25_FirstVisibleClicked ==
    [][(/\ pc \in {"tabs", "load"}
        /\ ilog.queried
        /\ \A i \in 1..Len(ilog.matches) : ilog.matches[i] # "detached")
          => LET taken == Cardinality({i \in FirstVisible(ilog.matches, Quota) :
                                          ilog.matches[i] = "visible"})
             IN  /\ ilog'.got = taken
                 /\ clicks' = clicks \o Rep(Selectors[cand], taken)]_vars


-----------------------------------------------------------------------------
(* A stand-alone InteractionHandler(url) and its caller *)

InitHandler ==
    /\ url_in \in ValidUrls
    /\ use_js = "False"
    /\ Constructed
    /\ pc = "handler"
    /\ ParserIdle
    /\ max_depth = 3
    /\ hop = 0
    /\ cand = 0
    /\ ilog = NoLog
    /\ handler = DefaultInteractions(url)
    /\ ledger = NoLedger
    /\ sched = NoSched

\* InteractionHandler.add_error(message, phase), also with an empty argument
HandlerAddError ==
    /\ pc = "handler"
    /\ Len(ledger.errors) < MaxErrors
    /\ \E message \in {"", "m"}, phase \in {"", "p"} :
          ledger' = add_error(ledger, message, phase)
    /\ UNCHANGED <<engineVars, pc, parserVars, max_depth, hop, cand, ilog, handler,
                   sched>>

\* the caller keeps what get_errors() returns
HandlerGetErrors ==
    /\ pc = "handler"
    /\ ledger' = [ledger EXCEPT !.held = get_errors(ledger),
                                !.has = @ \cup {"errors"}]
    /\ UNCHANGED <<engineVars, pc, parserVars, max_depth, hop, cand, ilog, handler,
                   sched>>

\* the caller keeps what get_interactions() returns
HandlerGetInteractions ==
    /\ pc = "handler"
    /\ ledger' = [ledger EXCEPT !.view = get_interactions(handler),
                                !.has = @ \cup {"interactions"}]
    /\ UNCHANGED <<engineVars, pc, parserVars, max_depth, hop, cand, ilog, handler,
                   sched>>

\* the caller removes the last element of a list it was returned, or appends
\* to one: to the list of errors its first entry once more, to the pages a URL
CallerEditsList ==
    /\ pc = "handler"
    /\ \/ /\ "errors" \in ledger.has
          /\ ledger.held # <<>>
          /\ \/ ledger' = [ledger EXCEPT !.held = SubSeq(@, 1, Len(@) - 1)]
             \/ /\ Len(ledger.held) <= MaxErrors
                /\ ledger' = [ledger EXCEPT !.held = Append(@, @[1])]
       \/ /\ "interactions" \in ledger.has
          /\ \/ /\ ledger.view.pages # <<>>
                /\ ledger' = [ledger EXCEPT
                                !.view.pages = SubSeq(@, 1, Len(@) - 1)]
             \/ /\ Len(ledger.view.pages) <= MaxPageId + 1
                /\ ledger' = [ledger EXCEPT
                                !.view.pages = Append(@, PageUrl(url, 0))]
    /\ UNCHANGED <<engineVars, pc, parserVars, max_depth, hop, cand, ilog, handler,
                   sched>>

\* the caller assigns to a field of an entry of the list of errors it was
\* returned
CallerEditsEntry ==
    /\ pc = "handler"
    /\ "errors" \in ledger.has
    /\ \E i \in 1..Len(ledger.held), field \in {"message", "phase"} :
          ledger' = [ledger EXCEPT !.heap[ledger.held[i]][field] = "x"]
    /\ UNCHANGED <<engineVars, pc, parserVars, max_depth, hop, cand, ilog, handler,
                   sched>>

NextHandler ==
    \/ HandlerAddPage
    \/ HandlerAddError
    \/ HandlerGetErrors
    \/ HandlerGetInteractions
    \/ CallerEditsList
    \/ CallerEditsEntry

SpecHandler == InitHandler /\ [][NextHandler]_vars

-----------------------------------------------------------------------------
(* Properties of InteractionHandler, under SpecHandler *)

\* C22: a step in which the caller changes a list it was returned, or an
\* entry of the list of errors it was returned, changes neither what
\* get_errors() nor what get_interactions() shows from then on.
C22_ViewsAreCopies ==
    [][(CallerEditsList \/ CallerEditsEntry)
          => /\ Entries(ledger', get_errors(ledger')) = Entries(ledger, get_errors(ledger))
             /\ get_interactions(handler') = get_interactions(handler)]_vars


-----------------------------------------------------------------------------
(* Two requests at once: POST /scrape builds a ScraperEngine per request,   *)
(* the engine a DynamicScraper, and the event loop runs the pagination      *)
(* loops of the two scrapers in turn, handing over at an await. The fields  *)
(* of the task that runs are the variables of the module; sched keeps the   *)
(* fields of the task that waits, and the list objects both refer to.       *)

\* mutant of new_list: the list display answers one list object for all
new_list_shared(heap) == 1

\* self.visited_pages = [url]: a list display makes a list object of its own
new_list(heap) == Len(heap) + 1

\* the heap after the list object at ref was made with value list
Allocated(heap, ref, list) ==
    IF ref > Len(heap) THEN Append(heap, list) ELSE [heap EXCEPT ![ref] = list]

\* the fields of the task that runs, as the event loop keeps them while the
\* task waits; pages is the reference its visited_pages holds
Saved(pages) ==
    [url_in |-> url_in, url |-> url, interactions |-> interactions,
     hist |-> hist, pc |-> pc, cand |-> cand, hop |-> hop, ilog |-> ilog,
     scrolls |-> scrolls, acquired |-> acquired, pages |-> pages]

\* two DynamicScrapers, built one after the other, whose fetch() returned
\* True and whose scroll loops are over: the first, of a bare host name, is
\* the one that runs, the second is of the same or of another URL
InitTwo ==
    /\ Fetched
    /\ url_in = <<" ", "x", "/">>
    /\ max_depth = 3
    /\ pc = "pagination"
    /\ hop = 0
    /\ cand = 1
    /\ ilog = [NoLog EXCEPT !.attempted = <<"tabs", "load", "scroll", "pagination">>]
    /\ handler = DefaultInteractions(<<>>)
    /\ ledger = NoLedger
    /\ \E second \in ValidUrls :
        sched = [turn |-> 1,
                 mine |-> new_list(<<>>),
                 lists |-> Allocated(Allocated(<<>>, new_list(<<>>), <<url>>),
                                     new_list(<<<<url>>>>),
                                     <<clean_url(second)>>),
                 other |-> [Saved(new_list(<<<<url>>>>)) EXCEPT
                              !.url_in = second,
                              !.url = clean_url(second),
                              !.interactions = DefaultInteractions(clean_url(second)),
                              !.hist = [hist EXCEPT !.record =
                                          DefaultInteractions(clean_url(second))]]]

\* the task that runs reaches an await, or has returned, and the event loop
\* resumes the other task, which waits inside its pagination loop
Switch ==
    /\ sched.turn \in {1, 2}
    /\ pc \in {"pagination", "idone"}
    /\ sched.other.pc = "pagination"
    /\ sched' = [turn |-> 3 - sched.turn,
                 mine |-> sched.other.pages,
                 lists |-> [sched.lists EXCEPT ![sched.mine] = visited_pages],
                 other |-> [Saved(sched.mine) EXCEPT
                              !.ilog.resumed = @ \/ (pc = "pagination" /\ hop >= 1)]]
    /\ visited_pages' = [sched.lists EXCEPT ![sched.mine] = visited_pages][sched.other.pages]
    /\ url_in' = sched.other.url_in
    /\ url' = sched.other.url
    /\ interactions' = sched.other.interactions
    /\ hist' = sched.other.hist
    /\ pc' = sched.other.pc
    /\ cand' = sched.other.cand
    /\ hop' = sched.other.hop
    /\ ilog' = sched.other.ilog
    /\ scrolls' = sched.other.scrolls
    /\ acquired' = sched.other.acquired
    /\ UNCHANGED <<use_js, meta, sections, errors, rstep, html, clicks, cstep,
                   expired, outcome, parserVars, max_depth, handler, ledger>>

NextTwo ==
    \/ CandidateSkipped
    \/ CandidateRaises
    \/ CandidateStalls
    \/ CandidateFollowed
    \/ Switch

SpecTwo == InitTwo /\ [][NextTwo]_vars

\* the hops of a task as _handle_pagination takes them: the pages it landed
\* on, then a hop without a qualifying candidate
HopsOf(landed) ==
    [k \in 1..(MAX_DEPTH - 1) |-> IF k <= Len(landed) THEN landed[k] ELSE -1]

\* the record a task returns when it runs alone from origin and lands on the
\* pages landed
Alone(origin, n, landed) ==
    [clicks |-> <<>>, scrolls |-> n,
     pages |-> _handle_pagination(origin, <<origin>>, HopsOf(landed))]

\* C23: whichever way the event loop interleaves two scrapers, the record
\* each returns is the record it returns alone with the same landing pages,
\* and the browser session of each stays as it acquired it
C23_RunsIndependent ==
    /\ (sched.turn # 0 /\ pc = "idone") =>
            /\ interactions = Alone(url, scrolls, ilog.landed)
            /\ acquired = AllAcquired
    /\ (sched.turn # 0 /\ sched.other.pc = "idone") =>
            /\ sched.other.interactions =
                   Alone(sched.other.url, sched.other.scrolls, sched.other.ilog.landed)
            /\ sched.other.acquired = AllAcquired

\* C23 witness: two scrapers of one URL have returned, each was suspended
\* between two hops of its loop, and they landed on different pages
C23_Witness ==
    /\ sched.turn # 0
    /\ pc = "idone"
    /\ sched.other.pc = "idone"
    /\ url = sched.other.url
    /\ ilog.resumed
    /\ sched.other.ilog.resumed
    /\ Len(ilog.landed) = 2
    /\ Len(sched.other.ilog.landed) = 2
    /\ ilog.landed # sched.other.ilog.landed


-----------------------------------------------------------------------------
(* Properties of the interactions record of the result, under Spec *)

\* C31: result.interactions is the default record until perform_interactions()
\* has returned, and from then on the record it returned, so at every return
\* of scrape() it is one of the two; what the interaction phase did before a
\* deadline expiry is not in it
C31_DefaultOrComplete ==
    /\ hist.inter # "done" => interactions = DefaultInteractions(url)
    /\ hist.inter = "done" => interactions = hist.record

\* C31 witness: scrape() has returned after the deadline expired inside the
\* interaction phase, which had clicked and scrolled by then
C31_Witness ==
    /\ Returned
    /\ expired
    /\ hist.inter = "running"
    /\ hist.snap.clicked
    /\ hist.snap.scrolled
    /\ interactions = DefaultInteractions(url)

\* C31, second case: scrape() has returned the record of an interaction
\* phase that ran to its end
C31_CompleteReturned ==
    /\ Returned
    /\ hist.inter = "done"
    /\ interactions # DefaultInteractions(url)


-----------------------------------------------------------------------------
(* perform_interactions() on a page where a selector of a click heuristic   *)
(* matches nothing or MaxMatches visible elements that take their click,    *)
(* and where a hop can land on more pages than the loop has hops: the click *)
(* heuristics selector by selector, the scroll loop iteration by iteration, *)
(* the pagination loop as a whole                                           *)

\* one selector of a click heuristic: query_selector_all, then the loop over
\* elements[:3] or buttons[:2]
SelectorRun ==
    /\ pc \in {"tabs", "load"}
    /\ cand <= Len(Selectors)
    /\ \E elements \in {<<>>, Rep("visible", MaxMatches)} :
          clicks' = clicks \o Rep(Selectors[cand], ClickLoop(Take(elements, Quota)).n)
    /\ cand' = cand + 1
    /\ UNCHANGED <<url_in, use_js, url, meta, sections, interactions, errors, pc,
                   rstep, acquired, html, scrolls, visited_pages, cstep, expired,
                   outcome, hist, parserVars, max_depth, hop, ilog, handler,
                   ledger, sched>>

\* _handle_pagination() runs its hops, each landing on the origin or on one
\* of MAX_DEPTH other pages, and perform_interactions() returns its record
PaginationRun ==
    /\ pc = "pagination"
    /\ \E hops \in [1..(MAX_DEPTH - 1) -> -1..MAX_DEPTH] :
          /\ visited_pages' = _handle_pagination(url, visited_pages, hops)
          /\ FinishInteractions(_handle_pagination(url, visited_pages, hops))
    /\ UNCHANGED <<sessionVars, parserVars, clicks, scrolls, max_depth, hop, ilog,
                   handler, ledger, sched>>

NextBudget ==
    \/ SelectorRun
    \/ ClicksReturn
    \/ ScrollForContent
    \/ PaginationRun

SpecBudget == InitPhase /\ [][NextBudget]_vars

-----------------------------------------------------------------------------
(* Properties of the returned record, under SpecBudget *)

\* C32: the record perform_interactions() returns has at most 22 clicks, the
\* clicks of tab selectors before those of load-more selectors, at most
\* SCROLL_ATTEMPTS scrolls, and between 1 and MAX_DEPTH pages
C32_RecordWithinBudgets ==
    pc = "idone" =>
        /\ Len(interactions.clicks) <= 22
        /\ \A i, j \in 1..Len(interactions.clicks) :
              (i < j /\ \E k \in 1..Len(LoadSelectors) :
                            interactions.clicks[i] = LoadSelectors[k])
                 => \E k \in 1..Len(LoadSelectors) :
                       interactions.clicks[j] = LoadSelectors[k]
        /\ interactions.scrolls \in 0..SCROLL_ATTEMPTS
        /\ Len(interactions.pages) \in 1..MAX_DEPTH

\* C32 witness: a returned record that uses up every budget
C32_Witness ==
    /\ pc = "idone"
    /\ Len(interactions.clicks) = 22
    /\ interactions.clicks[12] = TabSelectors[4]
    /\ interactions.clicks[13] = LoadSelectors[1]
    /\ interactions.scrolls = SCROLL_ATTEMPTS
    /\ Len(interactions.pages) = MAX_DEPTH

\* C32, the hops that add no page: a returned record with clicks of both
\* heuristics whose pages are the origin alone
C32_HopsWithoutPages ==
    /\ pc = "idone"
    /\ interactions.scrolls = 0
    /\ Len(interactions.clicks) \in 5..21
    /\ interactions.pages = <<url>>


-----------------------------------------------------------------------------
(* A run of scrape() in which every await ends: the call completes, or it   *)
(* raises, or the global deadline cancels the task                          *)

SpecLive == Init /\ [][Next]_vars /\ WF_vars(Next)

\* C33: every run of scrape() returns, whatever its awaits do, a run whose
\* deadline has expired included: it returns once close() is through
C33_EventuallyReturns == <>Returned

\* C33 witness: scrape() has returned after the deadline expired inside the
\* scroll loop and close() released the three resources of the session
C33_Witness ==
    /\ Returned
    /\ expired
    /\ hist.snap.scrolled
    /\ hist.inter = "running"
    /\ hist.closeCalled = CloseOrder
    /\ acquired \cap {"playwright", "browser", "context"} = {}


-----------------------------------------------------------------------------
(* Properties of the section ids, under SpecParse *)

\* C34: the ids of the sections one parse_sections call returns are pairwise
\* distinct; the id of a section made from a candidate is the candidate's tag
\* with its index among the candidates, dropped ones counted; the synthesized
\* section, of id main-0, is in the list only when it is the whole list
C34_IdsDistinct ==
    Parsed =>
        /\ \A i, j \in 1..Len(parsed) : i # j => parsed[i].id # parsed[j].id
        /\ \A i \in 1..Len(parsed) :
              \/ IsFallback(parsed[i])
              \/ /\ parsed[i].id[2] + 1 \in 1..Len(CandidatesOf(soup))
                 /\ parsed[i].id[1] = CandidatesOf(soup)[parsed[i].id[2] + 1].tag
                 /\ <<parsed[i]>> = _process_section(
                        CandidatesOf(soup)[parsed[i].id[2] + 1], parsed[i].id[2], url)
        /\ (\E i \in 1..Len(parsed) : IsFallback(parsed[i])) => Len(parsed) = 1

\* C34 witness: two sections of one tag name were returned, their ids differ
\* by the index alone
C34_Witness ==
    /\ Parsed
    /\ Len(parsed) = 2
    /\ parsed[1].id[1] = parsed[2].id[1]
    /\ parsed[1].id[2] # parsed[2].id[2]

\* C34, the index a dropped candidate consumed: the one section returned was
\* made from the second candidate and carries index 1
C34_DroppedConsumesIndex ==
    /\ Parsed
    /\ Len(parsed) = 1
    /\ ~IsFallback(parsed[1])
    /\ parsed[1].id[2] = 1

\* C34, an element main that is the first candidate carries the id main-0 in
\* a list of two sections
C34_MainElementFirst ==
    /\ Parsed
    /\ Len(parsed) = 2
    /\ parsed[1].id = <<"main", 0>>
    /\ parsed[1].type = "main"

=============================================================================
